---- MODULE Spec2Model ----
(***************************************************************************)
(* Model of the interactive-subprocess automation engine of the Compact    *)
(* Midnight playground server: WorkspaceManager.executeFunction and        *)
(* runCLIWithFunctionSelection (server/workspace-manager.js) driving the   *)
(* menu-driven CLI whose menu is built by DynamicCLIGenerator.             *)
(*                                                                         *)
(* One behaviour of the model is one execute session: the request          *)
(* (functionName, args) and the contract whose menu the CLI prints are     *)
(* chosen in Init; the child process is an environment that emits chunks   *)
(* on stdout/stderr and exits whenever it likes; time is counted in        *)
(* seconds (all delays of the code are whole multiples of 1000 ms).        *)
(*                                                                         *)
(* AnalyzerSpec is one run of ContractAnalyzer.analyzeContract             *)
(* (bboard-cli/src/contract-analyzer.ts) over a descriptor and a source    *)
(* chosen in its Init, followed by DynamicCLIGenerator.generateMenuItems;  *)
(* RequestSpec is one request to the server, an execute session or one     *)
(* call of WorkspaceManager.compile.                                       *)
(***************************************************************************)
EXTENDS Integers, Sequences, FiniteSets, TLC

(***************************************************************************)
(* Bounds of the model                                                     *)
(***************************************************************************)
\* largest number of operations of the analysed contract
MaxOps == 3
\* largest number of stdout chunks the child emits in one session
MaxChunks == 2
\* largest number of stderr chunks the child emits in one session
MaxErrChunks == 1
\* largest number of argument values of a request
MaxArgs == 2

(***************************************************************************)
(* Program constants (seconds)                                             *)
(***************************************************************************)
\* setTimeout(..., 1000) before the argument values are written
ArgDelay == 1
\* setTimeout(..., 3000) before the exit selection is written
ExitDelay == 3
\* setTimeout(..., 180000): the session timeout
TimeoutDelay == 180
\* exitCode of the outcome built by the timeout handler
TimeoutExitCode == -1
\* the code passed to 'close' when the child was ended by a signal (null)
NullCode == -2
\* the literal '6\n' written as the "Exit option"
ExitOptionLiteral == "6"
\* the error string appended by the timeout handler
TimedOutError == "CLI process timed out"
\* the message of the error delivered by the 'error' event
SpawnErrorMessage == "spawn npm ENOENT"

(***************************************************************************)
(* Words and names.  An operation name is a sequence of snake_case         *)
(* segments: <<"get","count">> is get_count.                               *)
(***************************************************************************)
\* word.charAt(0).toUpperCase() + word.slice(1)
Capitalize(w) ==
  CASE w = "get" -> "Get"
    [] w = "count" -> "Count"
    [] w = "increment" -> "Increment"
    [] w = "decrement" -> "Decrement"
    [] w = "reset" -> "Reset"
    [] w = "vote" -> "Vote"
    [] w = "yes" -> "Yes"
    [] w = "exit" -> "Exit"
    [] w = "display" -> "Display"
    [] w = "nosuch" -> "Nosuch"
    [] w = "results" -> "Results"
    [] OTHER -> w

\* String.prototype.toLowerCase on one word
ToLowerCase(w) ==
  CASE w = "Get" -> "get"
    [] w = "Count" -> "count"
    [] w = "Increment" -> "increment"
    [] w = "Decrement" -> "decrement"
    [] w = "Reset" -> "reset"
    [] w = "Vote" -> "vote"
    [] w = "Yes" -> "yes"
    [] w = "Exit" -> "exit"
    [] w = "Display" -> "display"
    [] w = "Nosuch" -> "nosuch"
    [] w = "Results" -> "results"
    [] OTHER -> w

\* toLowerCase on a whole name: segment by segment, the '_' are kept
NameToLowerCase(name) == [i \in 1..Len(name) |-> ToLowerCase(name[i])]

(***************************************************************************)
(* The contracts whose menu the CLI prints: the first N circuits of a      *)
(* fixed list of circuits of the example contracts (counter: get_count,    *)
(* increment, decrement; reset; voting: vote_yes), get_count first as in   *)
(* the two-operation scenario.                                             *)
(***************************************************************************)
\* the parameter list (value: Uint<16>) of increment and decrement
ValueParam == <<[name |-> "value", type |-> <<"Uint<", "16", ">">>]>>

Catalogue ==
  << [name |-> <<"get", "count">>, parameters |-> <<>>, readOnly |-> TRUE],
     [name |-> <<"increment">>, parameters |-> ValueParam, readOnly |-> FALSE],
     [name |-> <<"decrement">>, parameters |-> ValueParam, readOnly |-> FALSE],
     [name |-> <<"reset">>, parameters |-> <<>>, readOnly |-> FALSE],
     [name |-> <<"vote", "yes">>, parameters |-> <<>>, readOnly |-> FALSE] >>

OpLists == {SubSeq(Catalogue, 1, n) : n \in 0..MaxOps}

\* the operation names a request may ask for
TargetNames == {<<"get", "count">>, <<"increment">>, <<"nosuch">>}

\* the argument lists a request may carry: the first n of "7", "8", "9", ...
ArgValue(i) == ToString(6 + i)
ArgLists == {[i \in 1..n |-> ArgValue(i)] : n \in 0..MaxArgs}

(***************************************************************************)
(* Text.  A text is a sequence of pieces; a numbered menu line is one      *)
(* piece (one line of output.split('\n')), the menu prompt is two pieces   *)
(* so that a chunk boundary can fall inside it.                            *)
(***************************************************************************)
Piece(t) == [t |-> t, num |-> "", icon |-> "", label |-> <<>>, params |-> 0]
\* '\nYou can do one of the following:\n'
Header == Piece("header")
\* 'Which would you like to do? ' = PromptHead . PromptTail
PromptHead == Piece("q1")
PromptTail == Piece("q2")
MenuPrompt == <<PromptHead, PromptTail>>
\* a line carrying 'Exception:'
ExceptionText == Piece("exception")

\* String.prototype.includes: pat occurs in text as a contiguous run
Includes(text, pat) ==
  \E i \in 0..(Len(text) - Len(pat)) :
     \A j \in 1..Len(pat) : text[i + j] = pat[j]

(***************************************************************************)
(* DynamicCLIGenerator: the menu of the driven CLI                         *)
(***************************************************************************)
\* snake_case to title case, and the parameter count
formatFunctionLabel(func) ==
  [words |-> [i \in 1..Len(func.name) |-> Capitalize(func.name[i])],
   params |-> Len(func.parameters)]

\* the menu without the 'Display private state' item
generateMenuItemsNoPrivate(functions) ==
  LET n == Len(functions)
      opItems == [i \in 1..n |->
                   [key |-> ToString(i),
                    label |-> formatFunctionLabel(functions[i]),
                    readOnly |-> functions[i].readOnly]]
      fixed(k, words, ro) ==
        [key |-> ToString(k), label |-> [words |-> words, params |-> 0],
         readOnly |-> ro]
  IN opItems \o
     << fixed(n + 1, <<"Display", "ledger", "state">>, TRUE),
        fixed(n + 2, <<"Exit">>, FALSE) >>

\* the menu with the fixed items keyed 4, 5, 6 whatever N is
generateMenuItemsFixedKeys(functions) ==
  LET n == Len(functions)
      opItems == [i \in 1..n |->
                   [key |-> ToString(i),
                    label |-> formatFunctionLabel(functions[i]),
                    readOnly |-> functions[i].readOnly]]
      fixed(k, words, ro) ==
        [key |-> ToString(k), label |-> [words |-> words, params |-> 0],
         readOnly |-> ro]
  IN opItems \o
     << fixed(4, <<"Display", "ledger", "state">>, TRUE),
        fixed(5, <<"Display", "private", "state">>, TRUE),
        fixed(6, <<"Exit">>, FALSE) >>

\* the N operations, then the three fixed items, keyed 1..N+3
generateMenuItems(functions) ==
  LET n == Len(functions)
      opItems == [i \in 1..n |->
                   [key |-> ToString(i),
                    label |-> formatFunctionLabel(functions[i]),
                    readOnly |-> functions[i].readOnly]]
      fixed(k, words, ro) ==
        [key |-> ToString(k), label |-> [words |-> words, params |-> 0],
         readOnly |-> ro]
  IN opItems \o
     << fixed(n + 1, <<"Display", "ledger", "state">>, TRUE),
        fixed(n + 2, <<"Display", "private", "state">>, TRUE),
        fixed(n + 3, <<"Exit">>, FALSE) >>

\* the key of the Exit item of the menu of these operations
ExitKey(functions) ==
  LET items == generateMenuItems(functions) IN items[Len(items)].key

\* item.readOnly ? book : bolt
Indicator(readOnly) == IF readOnly THEN "book" ELSE "bolt"

\* '  ${item.key}. ${indicator} ${item.label}\n'
MenuLine(item) ==
  [t |-> "line", num |-> item.key, icon |-> Indicator(item.readOnly),
   label |-> item.label.words, params |-> item.label.params]

\* header, one line per item, then the prompt
generateMenuQuestion(menuItems) ==
  <<Header>> \o [i \in 1..Len(menuItems) |-> MenuLine(menuItems[i])]
             \o MenuPrompt

MenuText(functions) == generateMenuQuestion(generateMenuItems(functions))

(***************************************************************************)
(* runCLIWithFunctionSelection: index resolution                           *)
(***************************************************************************)
\* the character class [bolt book] of a pattern without the u flag holds the
\* UTF-16 code units of its members: the single unit of the bolt and the two
\* surrogate halves of the book.  The class matches ONE unit and \s+ must
\* follow it, so a line with the (two-unit) book indicator does not match.
IconClassMatches(icon) == icon = "bolt"

\* line.match(/^\s*(\d+)\.\s+[bolt book]\s+(\w+)/)
LineMatch(piece) ==
  /\ piece.t = "line"
  /\ piece.num # ""
  /\ IconClassMatches(piece.icon)
  /\ Len(piece.label) >= 1

\* match[2].toLowerCase() === functionName.toLowerCase(), match[2] being
\* the first word of the label (\w+ stops at the blank)
NameMatches(piece, fname) ==
  <<ToLowerCase(piece.label[1])>> = NameToLowerCase(fname)

\* the for loop over output.split('\n'): the number of the first line whose
\* name matches, "" (null) when there is none
FindFunctionNumber(out, fname) ==
  LET hits == {i \in 1..Len(out) : LineMatch(out[i]) /\ NameMatches(out[i], fname)}
  IN IF hits = {} THEN ""
     ELSE out[CHOOSE i \in hits : \A j \in hits : i <= j].num

(***************************************************************************)
(* Timers.  The state keeps the pending timers in the order of their       *)
(* expiry (Node runs timers in expiry order); the deadlines themselves are *)
(* computed from the delays when the timers are set.                       *)
(***************************************************************************)
TimerKinds == {"timeout", "arg", "exit"}

\* expiry of a timer of this kind when the menu reaction runs at time now
\* (the timeout is set at time 0, the other two at time now)
DueTimeSwapped(kind, now) ==
  CASE kind = "timeout" -> TimeoutDelay
    [] kind = "arg" -> now + ExitDelay
    [] kind = "exit" -> now + ArgDelay
DueTime(kind, now) ==
  CASE kind = "timeout" -> TimeoutDelay
    [] kind = "arg" -> now + ArgDelay
    [] kind = "exit" -> now + ExitDelay

\* insert a timer after every pending timer that expires no later
RECURSIVE InsertTimer(_, _, _)
InsertTimer(queue, kind, now) ==
  IF queue = <<>> THEN <<kind>>
  ELSE IF DueTime(Head(queue), now) <= DueTime(kind, now)
       THEN <<Head(queue)>> \o InsertTimer(Tail(queue), kind, now)
       ELSE <<kind>> \o queue

\* the timers the act-on-menu reaction sets when the target was found
SetWriteTimers(queue, arguments, now) ==
  LET withArg == IF Len(arguments) > 0 THEN InsertTimer(queue, "arg", now)
                 ELSE queue
  IN InsertTimer(withArg, "exit", now)

\* the timer set when the session starts
NoInitialTimers == <<>>
InitialTimers == <<"timeout">>

(***************************************************************************)
(* State                                                                   *)
(***************************************************************************)
VARIABLES
  ops,           \* the operations of the contract the CLI was built for
  functionName,  \* the requested operation
  args,          \* the argument values of the request
  chunks,        \* the stdout chunks received, in arrival order
  output,        \* let output: the captured stdout text
  errors,        \* let errors: the captured stderr chunks
  menuShown,     \* let menuShown: the menu latch
  stdinWrites,   \* the lines written to the child's stdin, in order
  timers,        \* the pending timers in expiry order
  proc,          \* the child: "running", "exited", "killed", "spawnFailed"
  exitCode,      \* the code 'close' will carry
  closed,        \* the 'close' event has been handled
  promise,       \* "pending", "fulfilled", "rejected"
  cliResult,     \* the value the promise was resolved with
  outcome,       \* what executeFunction returned
  settledBy,     \* which handler settled the promise
  reactions,     \* how many times the act-on-menu branch has run
  descriptor,    \* contract-info.json as the analyzer finds it
  source,        \* the .compact source file as the analyzer finds it
  analysis,      \* what analyzeContract returned or threw
  menuItems,     \* what generateMenuItems returned
  execOutcome,   \* how 'npm run compile' ends
  compileResult, \* what compile returned
  handlerFunc,   \* the operation a menu handler of the CLI was created for
  answers,       \* what is entered at the handler's prompts, in order
  handlerArgs,   \* const args: the parameter values collected so far
  handlerState,  \* the handler's position; "none" without handler
  handlerRun,    \* the handler's calls, what it logged, and how it ended
  inflight,      \* the /api/compile requests in flight, by request
  program,       \* the source text given to the line interpreter, by line
  interp         \* the line interpreter: loop position, variables, result

\* the state of one execute session
sessionVars == <<ops, functionName, args, chunks, output, errors, menuShown,
                 stdinWrites, timers, proc, exitCode, closed, promise,
                 cliResult, outcome, settledBy, reactions>>

\* the state of one run of the contract analyzer and the menu generator
analyzerVars == <<descriptor, source, analysis, menuItems>>

\* the state of one compile request
compileVars == <<execOutcome, compileResult>>

\* the state of one menu handler of the driven CLI
handlerVars == <<handlerFunc, answers, handlerArgs, handlerState, handlerRun>>

\* the state of one run of the line interpreter
interpVars == <<program, interp>>

vars == <<sessionVars, analyzerVars, compileVars, handlerVars, inflight,
          interpVars>>

request == <<ops, functionName, args>>

NoResult == [output |-> <<>>, errors |-> <<>>, exitCode |-> NullCode]
NoOutcome ==
  [returned |-> FALSE, success |-> FALSE, functionName |-> <<>>,
   output |-> [prefix |-> <<>>, body |-> <<>>], errors |-> <<>>]

\* no analysis has run: no descriptor, no source, nothing analysed
NoDescriptor == [kind |-> "absent", circuits |-> <<>>]
NoSource == [kind |-> "absent", circuits |-> <<>>, ledger |-> <<>>]
NoAnalysis ==
  [status |-> "none", contractName |-> "", functions |-> <<>>,
   ledgerState |-> <<>>, error |-> ""]
AnalyzerIdle ==
  /\ descriptor = NoDescriptor
  /\ source = NoSource
  /\ analysis = NoAnalysis
  /\ menuItems = <<>>

\* no compile request
NoExec ==
  [kind |-> "none", killed |-> FALSE, stdout |-> <<>>, stderr |-> <<>>,
   message |-> <<>>]
NoCompileResult ==
  [status |-> "none", success |-> FALSE, output |-> <<>>, errors |-> <<>>,
   hasContractInfo |-> FALSE, functions |-> <<>>]
CompileIdle ==
  /\ execOutcome = NoExec
  /\ compileResult = NoCompileResult

\* no menu handler is running
NoFunc == [name |-> <<>>, parameters |-> <<>>]
NoRun == [kind |-> "none", calls |-> <<>>, logged |-> <<>>, end |-> "none"]
HandlerIdle ==
  /\ handlerFunc = NoFunc
  /\ answers = <<>>
  /\ handlerArgs = <<>>
  /\ handlerState = "none"
  /\ handlerRun = NoRun

\* no /api/compile request is in flight
RaceIdle == inflight = <<>>

\* the names a program of the line interpreter may use for its variables
VarNames == {"x", "y", "letter"}

\* this.variables = new Map(): no name is bound
NoBindings == [v \in VarNames |-> [bound |-> FALSE, value |-> 0]]

\* the line interpreter has not been called
NoInterp ==
  [status |-> "none", i |-> 0, variables |-> NoBindings, output |-> <<>>,
   errorLine |-> 0, errorMessage |-> ""]
InterpIdle ==
  /\ program = <<>>
  /\ interp = NoInterp

\* nothing but the session, the analyzer and compile
OthersIdle == HandlerIdle /\ RaceIdle /\ InterpIdle

\* the state of a session that has just spawned its child
SessionStart ==
  /\ chunks = <<>>
  /\ output = <<>>
  /\ errors = <<>>
  /\ menuShown = FALSE
  /\ stdinWrites = <<>>
  /\ timers = InitialTimers
  /\ proc = "running"
  /\ exitCode = NullCode
  /\ closed = FALSE
  /\ promise = "pending"
  /\ cliResult = NoResult
  /\ outcome = NoOutcome
  /\ settledBy = "none"
  /\ reactions = 0

SessionInit ==
  /\ ops \in OpLists
  /\ functionName \in TargetNames
  /\ args \in ArgLists
  /\ SessionStart

Init == SessionInit /\ AnalyzerIdle /\ CompileIdle /\ OthersIdle

(***************************************************************************)
(* executeFunction: what the caller gets                                   *)
(***************************************************************************)
\* the return of the try block: success is exitCode === 0
ExecuteReturn(result) ==
  [returned |-> TRUE,
   success |-> (result.exitCode = 0),
   functionName |-> functionName,
   output |-> [prefix |-> functionName, body |-> result.output],
   errors |-> result.errors]

\* the return of the catch block
ExecuteCatch(message) ==
  [returned |-> TRUE, success |-> FALSE, functionName |-> functionName,
   output |-> [prefix |-> <<>>, body |-> <<>>], errors |-> <<message>>]

\* resolve(value): settles a pending promise, whereupon the await in
\* executeFunction continues; a settled promise ignores it
ResolveOverwriting(value, by) ==
  /\ promise' = "fulfilled"
  /\ cliResult' = value
  /\ outcome' = ExecuteReturn(value)
  /\ settledBy' = by
Resolve(value, by) ==
  IF promise = "pending"
  THEN /\ promise' = "fulfilled"
       /\ cliResult' = value
       /\ outcome' = ExecuteReturn(value)
       /\ settledBy' = by
  ELSE UNCHANGED <<promise, cliResult, outcome, settledBy>>

\* reject(error)
Reject(message, by) ==
  IF promise = "pending"
  THEN /\ promise' = "rejected"
       /\ cliResult' = cliResult
       /\ outcome' = ExecuteCatch(message)
       /\ settledBy' = by
  ELSE UNCHANGED <<promise, cliResult, outcome, settledBy>>

(***************************************************************************)
(* The handlers of runCLIWithFunctionSelection                             *)
(***************************************************************************)
Write(kind, line) == [kind |-> kind, line |-> line]

\* text.includes('Which would you like to do?')
SeesMenuPrompt(text) == Includes(text, MenuPrompt)

\* && !menuShown
LatchAlwaysOpen == TRUE
LatchOpen == ~menuShown

\* output += text
ReplaceByChunk(captured, text) == text
AppendChunk(captured, text) == captured \o text

\* const lines = output.split('\n'): the text the index lookup scans, given
\* the captured output and the chunk that has just been appended to it
ScannedChunkOnly(captured, text) == text
ScannedText(captured, text) == captured

\* what the child may print in one chunk
StdoutTexts == { MenuText(ops), <<ExceptionText>> }

\* cliProcess.stdout.on('data', ...)
StdoutData(text) ==
  /\ proc # "spawnFailed"
  /\ ~closed
  /\ Len(chunks) < MaxChunks
  /\ chunks' = Append(chunks, text)
  /\ output' = AppendChunk(output, text)
  /\ IF SeesMenuPrompt(text) /\ LatchOpen
     THEN /\ menuShown' = TRUE
          /\ reactions' = reactions + 1
          /\ LET functionNumber ==
                   FindFunctionNumber(ScannedText(AppendChunk(output, text), text),
                                      functionName)
             IN IF functionNumber # ""
                THEN /\ stdinWrites' =
                          Append(stdinWrites, Write("select", functionNumber))
                     /\ \E now \in 0..TimeoutDelay :
                          timers' = SetWriteTimers(timers, args, now)
                ELSE /\ stdinWrites' =
                          Append(stdinWrites, Write("exitNotFound", ExitOptionLiteral))
                     /\ timers' = timers
     ELSE UNCHANGED <<menuShown, reactions, stdinWrites, timers>>
  /\ UNCHANGED <<analyzerVars, compileVars, handlerVars, inflight, interpVars,
                 request, errors, proc, exitCode, closed, promise, cliResult,
                 outcome, settledBy>>

\* what the child may print on stderr in one chunk
StderrTexts == {"warning"}

\* cliProcess.stderr.on('data', ...)
StderrData(text) ==
  /\ proc # "spawnFailed"
  /\ ~closed
  /\ Len(errors) < MaxErrChunks
  /\ errors' = Append(errors, text)
  /\ UNCHANGED <<analyzerVars, compileVars, handlerVars, inflight, interpVars,
                 request, chunks, output, menuShown, stdinWrites, timers, proc,
                 exitCode, closed, promise, cliResult, outcome, settledBy,
                 reactions>>

\* the callback of setTimeout(..., 1000): args.forEach(write)
ArgTimerFire ==
  /\ timers # <<>>
  /\ Head(timers) = "arg"
  /\ timers' = Tail(timers)
  /\ stdinWrites' =
       stdinWrites \o [i \in 1..Len(args) |-> Write("arg", args[i])]
  /\ UNCHANGED <<analyzerVars, compileVars, handlerVars, inflight, interpVars,
                 request, chunks, output, errors, menuShown, proc, exitCode,
                 closed, promise, cliResult, outcome, settledBy, reactions>>

\* the callback of setTimeout(..., 3000): write('6\n')
ExitTimerFire ==
  /\ timers # <<>>
  /\ Head(timers) = "exit"
  /\ timers' = Tail(timers)
  /\ stdinWrites' = Append(stdinWrites, Write("exit", ExitOptionLiteral))
  /\ UNCHANGED <<analyzerVars, compileVars, handlerVars, inflight, interpVars,
                 request, chunks, output, errors, menuShown, proc, exitCode,
                 closed, promise, cliResult, outcome, settledBy, reactions>>

\* cliProcess.kill(): a running child is ended by the signal
NoKill == UNCHANGED <<proc, exitCode>>
Kill ==
  IF proc = "running"
  THEN proc' = "killed" /\ exitCode' = NullCode
  ELSE UNCHANGED <<proc, exitCode>>

\* the value the timeout handler resolves with
TimeoutResultNoOutput ==
  [output |-> <<>>, errors |-> Append(errors, TimedOutError),
   exitCode |-> TimeoutExitCode]
TimeoutResult ==
  [output |-> output, errors |-> Append(errors, TimedOutError),
   exitCode |-> TimeoutExitCode]

\* the callback of setTimeout(..., 180000)
TimeoutFire ==
  /\ timers # <<>>
  /\ Head(timers) = "timeout"
  /\ timers' = Tail(timers)
  /\ Kill
  /\ Resolve(TimeoutResult, "timeout")
  /\ UNCHANGED <<analyzerVars, compileVars, handlerVars, inflight, interpVars,
                 request, chunks, output, errors, menuShown, stdinWrites,
                 closed, reactions>>

\* the codes a child that ends by itself may exit with
ExitCodes == {0, 1}

\* the child ends by itself
ProcExit(code) ==
  /\ proc = "running"
  /\ proc' = "exited"
  /\ exitCode' = code
  /\ UNCHANGED <<analyzerVars, compileVars, handlerVars, inflight, interpVars,
                 request, chunks, output, errors, menuShown, stdinWrites,
                 timers, closed, promise, cliResult, outcome, settledBy,
                 reactions>>

\* cliProcess.on('close', ...): the child has ended and its streams closed
OnClose ==
  /\ proc \in {"exited", "killed"}
  /\ ~closed
  /\ closed' = TRUE
  /\ Resolve([output |-> output, errors |-> errors, exitCode |-> exitCode],
             "close")
  /\ UNCHANGED <<analyzerVars, compileVars, handlerVars, inflight, interpVars,
                 request, chunks, output, errors, menuShown, stdinWrites,
                 timers, proc, exitCode, reactions>>

\* cliProcess.on('error', ...): the child could not be started
OnError ==
  /\ proc = "running"
  /\ chunks = <<>> /\ errors = <<>>
  /\ proc' = "spawnFailed"
  /\ Reject(SpawnErrorMessage, "error")
  /\ UNCHANGED <<analyzerVars, compileVars, handlerVars, inflight, interpVars,
                 request, chunks, output, errors, menuShown, stdinWrites,
                 timers, exitCode, closed, reactions>>

Next ==
  \/ \E text \in StdoutTexts : StdoutData(text)
  \/ \E text \in StderrTexts : StderrData(text)
  \/ ArgTimerFire
  \/ ExitTimerFire
  \/ TimeoutFire
  \/ \E code \in ExitCodes : ProcExit(code)
  \/ OnClose
  \/ OnError

Spec == Init /\ [][Next]_vars

\* the event loop runs every timer that is due
LiveSpec ==
  /\ Spec
  /\ WF_vars(ArgTimerFire)
  /\ WF_vars(ExitTimerFire)
  /\ WF_vars(TimeoutFire)

(***************************************************************************)
(* ContractAnalyzer: the inputs.  A type label is a sequence of tokens:    *)
(* <<"Uint<", "16", ">">> is Uint<16>.                                     *)
(***************************************************************************)
\* largest maxval of the small Uint types of the descriptors: 0..MaxBound
MaxBound == 1

\* a property the JSON object does not have (undefined)
Undefined == -1

\* the type objects of contract-info.json
TypeObject(tn, maxval, length, hasTypes, types) ==
  [present |-> TRUE, tn |-> tn, maxval |-> maxval, length |-> length,
   hasTypes |-> hasTypes, types |-> types]
TUint(b) == TypeObject("Uint", b, Undefined, FALSE, <<>>)
TBytes(n) == TypeObject("Bytes", Undefined, n, FALSE, <<>>)
TTuple(types) == TypeObject("Tuple", Undefined, Undefined, TRUE, types)
\* a Tuple object without a types property
TupleNoTypes == TypeObject("Tuple", Undefined, Undefined, FALSE, <<>>)
\* any other type-name; "" is an object without a type-name
TNamed(tn) == TypeObject(tn, Undefined, Undefined, FALSE, <<>>)
\* no type object at all (a missing 'result-type' or 'type')
NoType ==
  [present |-> FALSE, tn |-> "", maxval |-> Undefined, length |-> Undefined,
   hasTypes |-> FALSE, types |-> <<>>]

\* the type objects the descriptors are built from
TypePool ==
  [b \in 1..(MaxBound + 1) |-> TUint(b - 1)] \o
  << TUint(65535), TUint(Undefined), TBytes(0), TBytes(32),
     TBytes(Undefined), TTuple(<<>>), TupleNoTypes,
     TTuple(<<TUint(65535), TBytes(32)>>), TTuple(<<TTuple(<<>>)>>),
     TNamed("Boolean"), TNamed(""), NoType >>

\* the circuits of the descriptors, without their names: every type of the
\* pool as result type, pure and not; the circuits that are not pure take
\* one argument of that type
CircuitPool ==
  [i \in 1..(2 * Len(TypePool)) |->
     LET type == TypePool[(i + 1) \div 2]
         pure == (i % 2 = 0)
     IN [arguments |-> IF pure THEN <<>>
                       ELSE <<[name |-> "value", type |-> type]>>,
         resultType |-> type,
         pure |-> pure]]

\* n consecutive entries of a pool, starting at start and wrapping around
Window(pool, start, n) ==
  [j \in 1..n |-> pool[((start + j - 2) % Len(pool)) + 1]]

\* the circuits array of a descriptor: the j-th circuit has the j-th name
\* of the catalogue
DescriptorCircuits(start, n) ==
  LET w == Window(CircuitPool, start, n)
  IN [j \in 1..n |->
       [name |-> Catalogue[j].name, arguments |-> w[j].arguments,
        resultType |-> w[j].resultType, pure |-> w[j].pure]]

\* contract-info.json: absent; present but the read, JSON.parse or the walk
\* over it throws ("unreadable"); parsed to an object without a circuits
\* array ("noCircuits"); parsed to an object with one ("valid")
Descriptors ==
  {[kind |-> k, circuits |-> <<>>] : k \in {"absent", "unreadable", "noCircuits"}}
  \cup {[kind |-> "valid", circuits |-> DescriptorCircuits(start, n)] :
          start \in 1..Len(CircuitPool), n \in 0..MaxOps}

\* the declarations 'export circuit name(params): returnType {' of the
\* sources, as the pattern of parseFunctions captures them: the captured
\* return type runs up to the brace, blanks included; a parameter whose
\* text has no ':' after its first character has the name ""
DeclPool ==
  << [name |-> <<"vote", "yes">>, params |-> <<>>,
      returnType |-> <<"[]", " ">>],
     [name |-> <<"get", "results">>, params |-> <<>>,
      returnType |-> <<"[", "Uint<", "64", ">", ", ", "Uint<", "64", ">", "]", " ">>],
     [name |-> <<"increment">>,
      params |-> <<[name |-> "value", type |-> <<"Uint<", "16", ">">>],
                   [name |-> "", type |-> <<"Counter">>]>>,
      returnType |-> <<"[]">>],
     [name |-> <<"get", "count">>,
      params |-> <<[name |-> "owner", type |-> <<"Bytes<", "32", ">">>]>>,
      returnType |-> <<"Uint<", "64", ">", " ">>],
     [name |-> <<"reset">>, params |-> <<>>, returnType |-> <<" ">>] >>

\* the declarations 'export ledger name: type;' of the sources
LedgerDecls ==
  { <<>>,
    << [name |-> "count", type |-> <<"Counter">>],
       [name |-> "owner", type |-> <<"Bytes<", "32", ">", " ">>] >>,
    << [name |-> "board", type |-> <<"Vector<", "Counter", ">">>],
       [name |-> "maker", type |-> <<"constructor">>] >> }

\* the .compact file: absent, or present with some declarations (none when
\* nothing in it matches the patterns)
Sources ==
  {NoSource}
  \cup {[kind |-> "present", circuits |-> Window(DeclPool, start, n),
         ledger |-> l] :
          start \in 1..Len(DeclPool), n \in 0..MaxOps, l \in LedgerDecls}

(***************************************************************************)
(* ContractAnalyzer: parsing                                               *)
(***************************************************************************)
\* `${value || 'unknown'}`: a missing value and 0 are both falsy
OrUnknown(value) ==
  IF value = Undefined \/ value = 0 THEN "unknown" ELSE ToString(value)

\* labels.join(', ')
RECURSIVE Join(_)
Join(labels) ==
  IF labels = <<>> THEN <<>>
  ELSE IF Len(labels) = 1 THEN labels[1]
  ELSE labels[1] \o <<", ">> \o Join(Tail(labels))

\* the label of a type object of the descriptor
RECURSIVE mapContractInfoTypeToUserFriendly(_)
mapContractInfoTypeToUserFriendly(typeObj) ==
  IF ~typeObj.present THEN <<"void">>
  ELSE CASE typeObj.tn = "Uint" -> <<"Uint<", OrUnknown(typeObj.maxval), ">">>
         [] typeObj.tn = "Bytes" -> <<"Bytes<", OrUnknown(typeObj.length), ">">>
         [] typeObj.tn = "Tuple" ->
              IF ~typeObj.hasTypes \/ Len(typeObj.types) = 0 THEN <<"[]">>
              ELSE <<"Tuple<">>
                   \o Join([i \in 1..Len(typeObj.types) |->
                              mapContractInfoTypeToUserFriendly(typeObj.types[i])])
                   \o <<">">>
         [] OTHER -> IF typeObj.tn = "" THEN <<"unknown">> ELSE <<typeObj.tn>>

\* circuit['result-type'] && !(type-name === 'Tuple' && (!types || types.length === 0))
\* (a missing result type makes the value undefined, which is falsy)
hasNonEmptyReturn(circuit) ==
  /\ circuit.resultType.present
  /\ ~(/\ circuit.resultType.tn = "Tuple"
       /\ (~circuit.resultType.hasTypes \/ Len(circuit.resultType.types) = 0))

\* circuit.pure === true || hasNonEmptyReturn
ReadOnlyIgnoringPure(circuit) == hasNonEmptyReturn(circuit)
DescriptorReadOnly(circuit) == circuit.pure \/ hasNonEmptyReturn(circuit)

\* one function per entry of contractInfo.circuits, none without the array
parseFromContractInfo(contractInfo) ==
  IF contractInfo.kind # "valid" THEN <<>>
  ELSE [i \in 1..Len(contractInfo.circuits) |->
         LET circuit == contractInfo.circuits[i]
         IN [name |-> circuit.name,
             parameters |->
               [j \in 1..Len(circuit.arguments) |->
                  [name |-> circuit.arguments[j].name,
                   type |-> mapContractInfoTypeToUserFriendly(
                              circuit.arguments[j].type)]],
             returnType |-> mapContractInfoTypeToUserFriendly(circuit.resultType),
             readOnly |-> DescriptorReadOnly(circuit)]]

\* String.prototype.trim: the blanks at both ends are dropped
RECURSIVE TrimStart(_)
TrimStart(text) ==
  IF text # <<>> /\ Head(text) = " " THEN TrimStart(Tail(text)) ELSE text
RECURSIVE TrimEnd(_)
TrimEnd(text) ==
  IF text # <<>> /\ text[Len(text)] = " "
  THEN TrimEnd(SubSeq(text, 1, Len(text) - 1)) ELSE text
NoTrim(text) == text
Trim(text) == TrimEnd(TrimStart(text))

\* the keys of the object literal typeMap
TypeMapKeys ==
  { <<"Opaque<", "\"string\"", ">">>,
    <<"Maybe<", "Opaque<", "\"string\"", ">", ">">>,
    <<"Counter">>, <<"Bytes<", "32", ">">>, <<"State">>, <<"[]">> }

\* typeMap is a plain object: a lookup by a name it does not define itself
\* finds the property of that name on Object.prototype
InheritedKeys ==
  { <<"constructor">>, <<"toString">>, <<"valueOf">>, <<"hasOwnProperty">> }

\* what such a lookup yields: a function, which is truthy and is no string
InheritedProperty == <<"function () { [native code] }">>

\* typeMap[compactType] || compactType
mapCompactTypeToUserFriendly(compactType) ==
  CASE compactType \in InheritedKeys -> InheritedProperty
    [] compactType = <<"Opaque<", "\"string\"", ">">> -> <<"string">>
    [] compactType = <<"Maybe<", "Opaque<", "\"string\"", ">", ">">> -> <<"string?">>
    [] compactType = <<"Counter">> -> <<"number">>
    [] compactType = <<"Bytes<", "32", ">">> -> <<"bytes">>
    [] compactType = <<"State">> -> <<"enum">>
    [] compactType = <<"[]">> -> <<"void">>
    [] OTHER -> compactType

\* returnType.trim() !== '[]' && returnType.trim() !== ''
TextualReadOnly(returnType) ==
  Trim(returnType) # <<"[]">> /\ Trim(returnType) # <<>>

\* the parameters with a name before the ':', in order, their types mapped
RECURSIVE ParseParams(_)
ParseParams(params) ==
  IF params = <<>> THEN <<>>
  ELSE LET param == Head(params)
       IN (IF param.name # ""
           THEN <<[name |-> param.name,
                   type |-> mapCompactTypeToUserFriendly(Trim(param.type))]>>
           ELSE <<>>)
          \o ParseParams(Tail(params))

\* one function per declaration the pattern matches, in source order
parseFunctions(content) ==
  [i \in 1..Len(content.circuits) |->
     LET decl == content.circuits[i]
     IN [name |-> decl.name,
         parameters |-> ParseParams(decl.params),
         returnType |-> Trim(decl.returnType),
         readOnly |-> TextualReadOnly(decl.returnType)]]

\* ledgerState[name] = mapCompactTypeToUserFriendly(type.trim())
parseLedgerState(content) ==
  [i \in 1..Len(content.ledger) |->
     [name |-> content.ledger[i].name,
      type |-> mapCompactTypeToUserFriendly(Trim(content.ledger[i].type))]]

\* what analyzeContract returns
Analysis(contractName, functions, ledgerState) ==
  [status |-> "returned", contractName |-> contractName,
   functions |-> functions, ledgerState |-> ledgerState, error |-> ""]

\* throw new Error(`Contract file not found: ...`)
ContractFileNotFound ==
  [status |-> "thrown", contractName |-> "", functions |-> <<>>,
   ledgerState |-> <<>>, error |-> "Contract file not found"]

\* the fallback: textual parsing of the .compact file
analyzeTextuallyStrict(src) ==
  IF src.kind = "absent" \/ src.circuits = <<>> THEN ContractFileNotFound
  ELSE Analysis("Bboard Contract", parseFunctions(src), parseLedgerState(src))
analyzeTextually(src) ==
  IF src.kind = "absent" THEN ContractFileNotFound
  ELSE Analysis("Bboard Contract", parseFunctions(src), parseLedgerState(src))

\* the descriptor branch: its functions, the ledger state of the source
analyzeFromContractInfoTextualFunctions(contractInfo, src) ==
  Analysis("Dynamic Contract",
           IF src.kind = "present" THEN parseFunctions(src) ELSE <<>>,
           IF src.kind = "present" THEN parseLedgerState(src) ELSE <<>>)
analyzeFromContractInfo(contractInfo, src) ==
  Analysis("Dynamic Contract", parseFromContractInfo(contractInfo),
           IF src.kind = "present" THEN parseLedgerState(src) ELSE <<>>)

\* the descriptor when it exists and can be read and walked, else the text
analyzeContractPropagating(contractInfo, src) ==
  IF contractInfo.kind \in {"valid", "noCircuits"}
  THEN analyzeFromContractInfo(contractInfo, src)
  ELSE IF contractInfo.kind = "unreadable"
       THEN [ContractFileNotFound EXCEPT !.error = "Unexpected token"]
       ELSE analyzeTextually(src)
analyzeContract(contractInfo, src) ==
  IF contractInfo.kind \in {"valid", "noCircuits"}
  THEN analyzeFromContractInfo(contractInfo, src)
  ELSE analyzeTextually(src)

(***************************************************************************)
(* DynamicCLIGenerator over the analyzer: initialize, then the menu        *)
(***************************************************************************)
\* no execute session is running: no child, no stream that could deliver
\* anything, no timer
SessionIdle ==
  /\ ops = <<>>
  /\ functionName = <<>>
  /\ args = <<>>
  /\ chunks = <<>>
  /\ output = <<>>
  /\ errors = <<>>
  /\ menuShown = FALSE
  /\ stdinWrites = <<>>
  /\ timers = <<>>
  /\ proc = "none"
  /\ exitCode = NullCode
  /\ closed = TRUE
  /\ promise = "none"
  /\ cliResult = NoResult
  /\ outcome = NoOutcome
  /\ settledBy = "none"
  /\ reactions = 0

AnalyzerInit ==
  /\ descriptor \in Descriptors
  /\ source \in Sources
  /\ analysis = NoAnalysis
  /\ menuItems = <<>>
  /\ SessionIdle
  /\ CompileIdle
  /\ OthersIdle

\* initialize(): this.contractAnalysis = await analyzer.analyzeContract();
\* an exception is logged and thrown again
Initialize ==
  /\ analysis.status = "none"
  /\ analysis' = analyzeContract(descriptor, source)
  /\ UNCHANGED <<descriptor, source, menuItems, sessionVars, compileVars,
                 handlerVars, inflight, interpVars>>

\* generateMenuItems() on the stored analysis
GenerateMenuItems ==
  /\ analysis.status = "returned"
  /\ menuItems = <<>>
  /\ menuItems' = generateMenuItems(analysis.functions)
  /\ UNCHANGED <<descriptor, source, analysis, sessionVars, compileVars,
                 handlerVars, inflight, interpVars>>

AnalyzerNext == Initialize \/ GenerateMenuItems

AnalyzerSpec == AnalyzerInit /\ [][AnalyzerNext]_vars

(***************************************************************************)
(* WorkspaceManager.compile                                                *)
(***************************************************************************)
\* how execAsync('npm run compile') ends: it resolves with stdout and
\* stderr ("ok"), or rejects with an error carrying stdout, stderr and a
\* message ("failed"): the command exited with a non-zero code, or it was
\* still running after 60000 ms and exec killed it (error.killed); the
\* message is 'Command failed: npm run compile' and stderr in both cases
ExecOutcomes ==
  {[kind |-> kd[1], killed |-> kd[2], stdout |-> out, stderr |-> err,
    message |-> IF kd[1] = "failed" THEN <<Piece("Command failed")>> ELSE <<>>] :
     kd \in {<<"ok", FALSE>>, <<"failed", FALSE>>, <<"failed", TRUE>>},
     out \in {<<>>, <<Piece("compiled")>>, <<Piece("compiling"), ExceptionText>>},
     err \in {<<>>, <<Piece("stderr")>>}}

\* the names matched by /export\s+circuit\s+(\w+)/g; [] without the file
parseFunctionsFromContract(src) ==
  IF src.kind = "present"
  THEN [i \in 1..Len(src.circuits) |-> src.circuits[i].name]
  ELSE <<>>

\* errorMessages of the catch block: stderr when there is any, stdout when
\* it holds 'Exception:', and error.message when neither gave anything
ErrorMessagesNoFallback(error) ==
  (IF error.stderr # <<>> THEN <<error.stderr>> ELSE <<>>)
  \o (IF error.stdout # <<>> /\ Includes(error.stdout, <<ExceptionText>>)
      THEN <<error.stdout>> ELSE <<>>)
ErrorMessages(error) ==
  LET found ==
        (IF error.stderr # <<>> THEN <<error.stderr>> ELSE <<>>)
        \o (IF error.stdout # <<>> /\ Includes(error.stdout, <<ExceptionText>>)
            THEN <<error.stdout>> ELSE <<>>)
  IN IF found = <<>> THEN <<error.message>> ELSE found

\* the return of the try block
CompileReturn(result, src) ==
  [status |-> "returned", success |-> TRUE, output |-> result.stdout,
   errors |-> IF result.stderr # <<>> THEN <<result.stderr>> ELSE <<>>,
   hasContractInfo |-> TRUE, functions |-> parseFunctionsFromContract(src)]

\* the return of the catch block
CompileCatch(error) ==
  [status |-> "returned", success |-> FALSE, output |-> error.stdout,
   errors |-> ErrorMessages(error),
   hasContractInfo |-> FALSE, functions |-> <<>>]

\* one call of compile()
Compile ==
  /\ execOutcome.kind # "none"
  /\ compileResult.status = "none"
  /\ compileResult' = IF execOutcome.kind = "ok"
                      THEN CompileReturn(execOutcome, source)
                      ELSE CompileCatch(execOutcome)
  /\ UNCHANGED <<execOutcome, analyzerVars, sessionVars, handlerVars, inflight,
                 interpVars>>

\* a request to the server: an execute session or a compile
CompileInit ==
  /\ SessionIdle
  /\ descriptor = NoDescriptor
  /\ source \in Sources
  /\ analysis = NoAnalysis
  /\ menuItems = <<>>
  /\ execOutcome \in ExecOutcomes
  /\ compileResult = NoCompileResult
  /\ OthersIdle

RequestInit == Init \/ CompileInit

RequestNext == Next \/ Compile

RequestSpec == RequestInit /\ [][RequestNext]_vars

(***************************************************************************)
(* DynamicCLIGenerator: the handler of an operation collects one value     *)
(* per declared parameter, asking with rli.question                        *)
(***************************************************************************)
\* the parameters a handler may have to collect: [name, type label]
ParamPool ==
  << [name |-> "value", type |-> <<"Uint<", "16", ">">>],
     [name |-> "state", type |-> <<"enum">>],
     [name |-> "flag", type |-> <<"Boolean">>],
     [name |-> "count", type |-> <<"number">>],
     [name |-> "message", type |-> <<"string">>],
     [name |-> "owner", type |-> <<"bytes">>],
     [name |-> "board", type |-> <<"Vector<", "Counter", ">">>],
     [name |-> "pair", type |-> <<"Tuple<", "Uint<", "8", ">", ", ", "Boolean", ">">>],
     [name |-> "what", type |-> <<"unknown">>],
     [name |-> "none", type |-> <<"void">>] >>

\* the texts entered at a prompt
InputPool ==
  <<"7", "abc", "", "1.5", " 12 ", "0x10", "-3", "1e3", "70000",
    "callCircuitFunction">>

\* a number, or NaN
Num(value) == [nan |-> FALSE, value |-> value]
NaN == [nan |-> TRUE, value |-> 0]

\* parseInt(input, 10): the leading decimal integer, NaN without one
parseInt(input) ==
  CASE input = "7" -> Num(7)
    [] input = "1.5" -> Num(1)
    [] input = " 12 " -> Num(12)
    [] input = "0x10" -> Num(0)
    [] input = "-3" -> Num(-3)
    [] input = "1e3" -> Num(1)
    [] input = "70000" -> Num(70000)
    [] OTHER -> NaN

\* isNaN(Number(input)): Number reads the whole text as a numeric literal,
\* blanks around it ignored, the empty text as 0
NumberIsNaN(input) ==
  input \notin {"7", "", "1.5", " 12 ", "0x10", "-3", "1e3", "70000"}

\* BigInt(input): the integer literals only; anything else is a SyntaxError
BigIntParses(input) == input \in {"7", "", " 12 ", "0x10", "-3", "70000"}
BigIntValue(input) ==
  CASE input = "7" -> 7
    [] input = "" -> 0
    [] input = " 12 " -> 12
    [] input = "0x10" -> 16
    [] input = "-3" -> -3
    [] input = "70000" -> 70000
    [] OTHER -> 0

\* what collectParameter gives: a BigInt, the text, or an exception
BigIntOf(n) == [kind |-> "bigint", int |-> n, text |-> ""]
RawText(input) == [kind |-> "text", int |-> 0, text |-> input]
Thrown(message) == [kind |-> "thrown", int |-> 0, text |-> message]

\* BigInt(input)
BigInt(input) ==
  IF BigIntParses(input) THEN BigIntOf(BigIntValue(input))
  ELSE Thrown("SyntaxError: Cannot convert to a BigInt")

\* default: BigInt(input) if !isNaN(Number(input)), else input
DefaultBranchRawText(input) == RawText(input)
DefaultBranch(input) ==
  IF ~NumberIsNaN(input) THEN BigInt(input) ELSE RawText(input)

\* the value collected for this parameter from this input
collectParameter(param, input) ==
  IF Includes(param.type, <<"Uint<">>)
  THEN IF parseInt(input).nan THEN Thrown("Invalid number")
       ELSE BigIntOf(parseInt(input).value)
  ELSE CASE param.type = <<"number">> -> BigInt(input)
         [] param.type = <<"string">> -> RawText(input)
         [] param.type = <<"bytes">> -> RawText(input)
         [] OTHER -> DefaultBranch(input)

\* the operations a handler is created for: a transaction circuit, a
\* circuit executeContractFunction answers from the ledger state, and two
\* circuits named like members of the BBoardAPI object
HandlerNames ==
  {<<"increment">>, <<"get", "count">>, <<"callCircuitFunction">>, <<"toString">>}

\* a run of a handler that has just been called from the menu loop
StartRun(kind) ==
  [kind |-> kind, calls |-> <<>>, logged |-> <<>>, end |-> "running"]

\* a handler starts for an operation with up to MaxArgs parameters; what
\* will be entered at its prompts is fixed beforehand.  Or one of the two
\* state-display handlers starts
HandlerInit ==
  /\ \/ \E start \in 1..Len(ParamPool), from \in 1..Len(InputPool),
           n \in 0..MaxArgs, name \in HandlerNames :
          /\ handlerFunc = [name |-> name,
                            parameters |-> Window(ParamPool, start, n)]
          /\ answers = Window(InputPool, from, n)
          /\ handlerState = IF n = 0 THEN "collected" ELSE "collecting"
          /\ handlerRun = StartRun("function")
     \/ \E kind \in {"ledger", "private"} :
          /\ handlerFunc = NoFunc
          /\ answers = <<>>
          /\ handlerState = "displaying"
          /\ handlerRun = StartRun(kind)
  /\ handlerArgs = <<>>
  /\ SessionIdle /\ AnalyzerIdle /\ CompileIdle /\ RaceIdle /\ InterpIdle

\* catch (error) { this.logger.error(...) }: the handler returns normally
CatchRethrows(run, message) ==
  [run EXCEPT !.logged = Append(run.logged, message), !.end = "propagated"]
Catch(run, message) ==
  [run EXCEPT !.logged = Append(run.logged, message), !.end = "completed"]

\* one turn of 'for (const param of func.parameters)': an exception leaves
\* the loop for the catch block of the handler, which logs it
CollectParameter ==
  /\ handlerState = "collecting"
  /\ LET k == Len(handlerArgs) + 1
         value == collectParameter(handlerFunc.parameters[k], answers[k])
     IN IF value.kind = "thrown"
        THEN /\ handlerState' = "failed"
             /\ handlerArgs' = handlerArgs
             /\ handlerRun' = Catch(handlerRun, value.text)
        ELSE /\ handlerArgs' = Append(handlerArgs, value)
             /\ handlerState' = IF k = Len(handlerFunc.parameters)
                                THEN "collected" ELSE "collecting"
             /\ handlerRun' = handlerRun
  /\ UNCHANGED <<handlerFunc, answers, sessionVars, analyzerVars, compileVars,
                 inflight, interpVars>>

\* a call of a circuit on the contract interface (contract.callTx)
Call(via, circuit, arguments) ==
  [via |-> via, circuit |-> circuit, args |-> arguments]

\* how a call on the contract interface, or a read of the ledger state, ends
CallOutcomes == {"ok", "throws"}

\* the function-valued members of the BBoardAPI object: its one method and
\* what it inherits from Object.prototype
ApiMethods == {<<"callCircuitFunction">>}
ApiInherited == {<<"toString">>}

\* how the handler finds the enhanced API: the global is not set, its
\* bboardApi is null, or it is ready
ApiStates == {"missing", "uninitialized", "ready"}

\* the circuit callCircuitFunction(functionName, ...args) is asked to call:
\* the first value collected, when that is a text
RequestedCircuit(arguments) ==
  IF arguments # <<>> /\ arguments[1].kind = "text"
  THEN <<arguments[1].text>> ELSE <<>>

\* contractInterface[functionName] is a function: the circuits of the
\* contract the handler was created for
OnContract(circuit) == circuit = handlerFunc.name

\* enhancedApi.executeFunction(func.name, ...args): the call it makes on the
\* contract interface, if any, and whether it throws without one
ApiCalls(api, arguments) ==
  IF api = "ready" /\ handlerFunc.name \in ApiMethods
                   /\ OnContract(RequestedCircuit(arguments))
  THEN <<Call("api", RequestedCircuit(arguments), Tail(arguments))>>
  ELSE <<>>

ApiThrowsAtOnce(api, arguments) ==
  \/ api # "ready"
  \/ handlerFunc.name \notin (ApiMethods \cup ApiInherited)
  \/ /\ handlerFunc.name \in ApiMethods
     /\ ~OnContract(RequestedCircuit(arguments))

\* the names executeContractFunction answers itself
LedgerReads == {<<"get", "count">>, <<"get", "results">>}
FixedAnswers == {<<"reset">>}

\* executeContractFunction up to its first await: a circuit that is not
\* answered from the ledger state is called on the contract interface
DirectCallsNone(name, arguments) == <<>>
DirectCalls(name, arguments) ==
  IF name \in LedgerReads \cup FixedAnswers THEN <<>>
  ELSE <<Call("contract", name, arguments)>>

\* the first execution path: the handler finds the enhanced API in some
\* state, executeFunction returns or throws, and the catch block of the
\* inner try starts executeContractFunction
ExecuteFunction ==
  /\ handlerState = "collected"
  /\ \E api \in ApiStates, ended \in CallOutcomes :
       LET made == ApiCalls(api, handlerArgs)
           threw == \/ ApiThrowsAtOnce(api, handlerArgs)
                    \/ made # <<>> /\ ended = "throws"
       IN IF threw
          THEN /\ handlerState' = "fallback"
               /\ handlerRun' =
                    [handlerRun EXCEPT
                       !.calls = @ \o made
                                   \o DirectCalls(handlerFunc.name, handlerArgs)]
          ELSE /\ handlerState' = "executed"
               /\ handlerRun' = [handlerRun EXCEPT !.calls = @ \o made,
                                                   !.end = "completed"]
  /\ UNCHANGED <<handlerFunc, answers, handlerArgs, sessionVars, analyzerVars,
                 compileVars, inflight, interpVars>>

\* the second execution path ends: executeContractFunction returns, or it
\* throws and the catch block of the handler logs the error
ExecuteContractFunction ==
  /\ handlerState = "fallback"
  /\ \E ended \in CallOutcomes :
       IF ended = "throws" /\ handlerFunc.name \notin FixedAnswers
       THEN /\ handlerState' = "executionFailed"
            /\ handlerRun' = Catch(handlerRun, "Failed to execute")
       ELSE /\ handlerState' = "executed"
            /\ handlerRun' = [handlerRun EXCEPT !.end = "completed"]
  /\ UNCHANGED <<handlerFunc, answers, handlerArgs, sessionVars, analyzerVars,
                 compileVars, inflight, interpVars>>

\* how a state-display handler finds its global display function
DisplayStates == {"unavailable", "ok", "throws"}

\* createStateDisplayHandler / createPrivateStateDisplayHandler
DisplayState ==
  /\ handlerState = "displaying"
  /\ \E display \in DisplayStates :
       /\ handlerState' = IF display = "throws" THEN "displayFailed"
                          ELSE "displayed"
       /\ handlerRun' =
            CASE display = "throws" ->
                   Catch(handlerRun, "Failed to display state")
              [] display = "unavailable" ->
                   [handlerRun EXCEPT !.logged = Append(@, "not available"),
                                      !.end = "completed"]
              [] display = "ok" -> [handlerRun EXCEPT !.end = "completed"]
  /\ UNCHANGED <<handlerFunc, answers, handlerArgs, sessionVars, analyzerVars,
                 compileVars, inflight, interpVars>>

HandlerNext ==
  \/ CollectParameter
  \/ ExecuteFunction
  \/ ExecuteContractFunction
  \/ DisplayState

HandlerSpec == HandlerInit /\ [][HandlerNext]_vars

(***************************************************************************)
(* The session seen chunk by chunk: a request for 'increment' of the       *)
(* two-operation contract, whose child may end a chunk in the middle of    *)
(* the menu prompt, may print the parameter prompt, and may print the menu *)
(* on stderr                                                               *)
(***************************************************************************)
\* 'Enter value (Uint<16>): ', the prompt of collectParameter
ParamPrompt == Piece("paramPrompt")

\* the menu text up to the middle of 'Which would you like to do? '
MenuTextHead(functions) ==
  LET text == MenuText(functions) IN SubSeq(text, 1, Len(text) - 1)

\* what the child may print on stdout in one chunk
StreamStdoutTexts ==
  { MenuText(ops), MenuTextHead(ops), <<PromptTail>>, <<ParamPrompt>> }

\* what the child may print on stderr in one chunk
StreamStderrTexts == { <<Piece("warning")>>, MenuText(ops) }

StreamInit ==
  /\ SessionInit
  /\ ops = SubSeq(Catalogue, 1, 2)
  /\ functionName = <<"increment">>
  /\ AnalyzerIdle /\ CompileIdle /\ OthersIdle

StreamNext ==
  \/ \E text \in StreamStdoutTexts : StdoutData(text)
  \/ \E text \in StreamStderrTexts : StderrData(text)
  \/ ArgTimerFire
  \/ ExitTimerFire
  \/ TimeoutFire
  \/ \E code \in ExitCodes : ProcExit(code)
  \/ OnClose
  \/ OnError

StreamSpec == StreamInit /\ [][StreamNext]_vars

(***************************************************************************)
(* POST /api/compile, several requests at a time.  The handler awaits      *)
(* updateContract(code) and then compile(); both work on the one file      *)
(* this.contractFile of the one WorkspaceManager of the server, which is   *)
(* the file `source` the analyzer reads.                                   *)
(***************************************************************************)
\* number of compile requests in flight together
MaxRequests == 2

\* the contract codes a request may submit: one declaration each
Codes ==
  {[kind |-> "present", circuits |-> Window(DeclPool, start, 1), ledger |-> <<>>] :
     start \in 1..Len(DeclPool)}

\* a request as it arrives: nothing written, nothing compiled
Arrived(code) ==
  [code |-> code, pc |-> "arrived", compiled |-> NoSource, functions |-> <<>>]

RaceInit ==
  /\ inflight \in [1..MaxRequests -> {Arrived(code) : code \in Codes}]
  /\ source = NoSource
  /\ descriptor = NoDescriptor
  /\ analysis = NoAnalysis
  /\ menuItems = <<>>
  /\ SessionIdle /\ CompileIdle /\ HandlerIdle /\ InterpIdle

\* await workspaceManager.updateContract(code): fs.writeFile(contractFile)
UpdateContract(r) ==
  /\ inflight[r].pc = "arrived"
  /\ source' = inflight[r].code
  /\ inflight' = [inflight EXCEPT ![r].pc = "updated"]
  /\ UNCHANGED <<descriptor, analysis, menuItems, sessionVars, compileVars,
                 handlerVars, interpVars>>

\* compile(): 'npm run compile' compiles the file as it is when it runs
RunCompiler(r) ==
  /\ inflight[r].pc = "updated"
  /\ inflight' = [inflight EXCEPT ![r].pc = "compiled", ![r].compiled = source]
  /\ UNCHANGED <<analyzerVars, sessionVars, compileVars, handlerVars,
                 interpVars>>

\* compile(), after the await: parseFunctionsFromContract reads the file
\* again, and the handler sends the result
Respond(r) ==
  /\ inflight[r].pc = "compiled"
  /\ inflight' = [inflight EXCEPT
                    ![r].pc = "responded",
                    ![r].functions = parseFunctionsFromContract(source)]
  /\ UNCHANGED <<analyzerVars, sessionVars, compileVars, handlerVars,
                 interpVars>>

RaceNext ==
  \E r \in 1..MaxRequests : UpdateContract(r) \/ RunCompiler(r) \/ Respond(r)

RaceSpec == RaceInit /\ [][RaceNext]_vars

(***************************************************************************)
(* CompactMidnightCompiler: the line interpreter.  A line of the source    *)
(* text is modelled by what executeLine takes it for: a blank line, a      *)
(* comment, 'let name = expr', 'name = expr', 'print expr'; an expression  *)
(* is a number, a name, or 'name + number'.                                *)
(***************************************************************************)
\* largest number of lines of a program
MaxLines == 3

NumExpr(n) == [kind |-> "num", n |-> n, v |-> ""]
VarExpr(v) == [kind |-> "var", n |-> 0, v |-> v]
AddExpr(v, n) == [kind |-> "add", n |-> n, v |-> v]

Line(kind, name, expr) == [kind |-> kind, name |-> name, expr |-> expr]
BlankLine == Line("blank", "", NumExpr(0))
CommentLine == Line("comment", "", NumExpr(0))

\* the lines programs are made of
LinePool ==
  { BlankLine, CommentLine,
    Line("let", "x", NumExpr(1)),
    Line("let", "y", VarExpr("x")),
    Line("assign", "x", AddExpr("x", 1)),
    Line("assign", "y", NumExpr(2)),
    Line("assign", "letter", NumExpr(5)),
    Line("print", "", VarExpr("x")) }

RECURSIVE SeqsUpTo(_, _)
SeqsUpTo(set, n) ==
  IF n = 0 THEN {<<>>}
  ELSE LET shorter == SeqsUpTo(set, n - 1)
       IN shorter \cup {Append(q, e) : q \in shorter, e \in set}

Programs == SeqsUpTo(LinePool, MaxLines)

\* code.split('\n').map(line => line.trim()).filter(line => line.length > 0)
SplitTrimFilter(code) == SelectSeq(code, LAMBDA line : line.kind # "blank")

\* what a handler or evaluateExpression gives: a value, or an exception
Value(n) == [thrown |-> FALSE, value |-> n, message |-> ""]
Raise(message) == [thrown |-> TRUE, value |-> 0, message |-> message]

\* a number literal is its number; a name is the value bound to it; in
\* 'name + number' the bound names are replaced by their values and the
\* text is evaluated if only digits and operators are left
evaluateExpression(expression, variables) ==
  CASE expression.kind = "num" -> Value(expression.n)
    [] expression.kind = "var" ->
         IF variables[expression.v].bound
         THEN Value(variables[expression.v].value)
         ELSE Raise("Cannot evaluate expression")
    [] expression.kind = "add" ->
         IF variables[expression.v].bound
         THEN Value(variables[expression.v].value + expression.n)
         ELSE Raise("Cannot evaluate expression")

\* what executeLine gives: the exception or the result line, and the map
Threw(message, variables) ==
  [thrown |-> TRUE, message |-> message, null |-> TRUE,
   result |-> <<>>, variables |-> variables]
Gave(result, variables) ==
  [thrown |-> FALSE, message |-> "", null |-> FALSE,
   result |-> result, variables |-> variables]
GaveNull(variables) ==
  [thrown |-> FALSE, message |-> "", null |-> TRUE,
   result |-> <<>>, variables |-> variables]

\* this.variables.set(varName, value)
Set(variables, varName, value) ==
  [variables EXCEPT ![varName] = [bound |-> TRUE, value |-> value]]

\* let name = expr: evaluate, then bind
handleVariableAssignment(line, variables) ==
  LET value == evaluateExpression(line.expr, variables)
  IN IF value.thrown THEN Threw(value.message, variables)
     ELSE Gave(<<line.name, "=", value.value>>,
               Set(variables, line.name, value.value))

\* name = expr: the name must be bound; evaluate, then bind
handleAssignmentNoCheck(line, variables) ==
  LET value == evaluateExpression(line.expr, variables)
  IN IF value.thrown THEN Threw(value.message, variables)
     ELSE Gave(<<line.name, "=", value.value>>,
               Set(variables, line.name, value.value))
handleAssignment(line, variables) ==
  IF ~variables[line.name].bound
  THEN Threw("Variable not declared", variables)
  ELSE LET value == evaluateExpression(line.expr, variables)
       IN IF value.thrown THEN Threw(value.message, variables)
          ELSE Gave(<<line.name, "=", value.value>>,
                    Set(variables, line.name, value.value))

\* print expr
handlePrint(line, variables) ==
  LET value == evaluateExpression(line.expr, variables)
  IN IF value.thrown THEN Threw(value.message, variables)
     ELSE Gave(<<"OUTPUT:", value.value>>, variables)

\* line.startsWith('let') of a line 'name = expr'
StartsWithLet(name) == name \in {"letter"}

\* the dispatch of executeLine.  A line 'name = expr' whose name begins
\* with 'let' is not taken for an assignment (!line.startsWith('let')): it
\* has no parentheses and is evaluated as an expression, which fails
\* because of its '='
executeLine(line, variables) ==
  CASE line.kind = "comment" -> GaveNull(variables)
    [] line.kind = "let" -> handleVariableAssignment(line, variables)
    [] line.kind = "print" -> handlePrint(line, variables)
    [] line.kind = "assign" ->
         IF StartsWithLet(line.name)
         THEN Threw("Cannot evaluate expression", variables)
         ELSE handleAssignment(line, variables)

\* compile(code): the maps are cleared and the loop starts at i = 0
InterpInit ==
  /\ program \in Programs
  /\ interp = [NoInterp EXCEPT !.status = "running"]
  /\ SessionIdle /\ AnalyzerIdle /\ CompileIdle /\ HandlerIdle /\ RaceIdle

\* one turn of the loop: executeLine(lines[i], i + 1); an exception gets
\* error.line = lineNumber and ends compile
ExecuteLine ==
  /\ interp.status = "running"
  /\ interp.i < Len(SplitTrimFilter(program))
  /\ LET lines == SplitTrimFilter(program)
         done == executeLine(lines[interp.i + 1], interp.variables)
     IN interp' =
          IF done.thrown
          THEN [interp EXCEPT !.status = "thrown",
                              !.errorLine = interp.i + 1,
                              !.errorMessage = done.message]
          ELSE [interp EXCEPT !.i = interp.i + 1,
                              !.variables = done.variables,
                              !.output = IF done.null THEN interp.output
                                         ELSE Append(interp.output, done.result)]
  /\ UNCHANGED <<program, sessionVars, analyzerVars, compileVars, handlerVars,
                 inflight>>

\* the loop is over: return { output, variables, executionTime }
InterpReturn ==
  /\ interp.status = "running"
  /\ interp.i = Len(SplitTrimFilter(program))
  /\ interp' = [interp EXCEPT !.status = "returned"]
  /\ UNCHANGED <<program, sessionVars, analyzerVars, compileVars, handlerVars,
                 inflight>>

InterpNext == ExecuteLine \/ InterpReturn

InterpSpec == InterpInit /\ [][InterpNext]_vars

(***************************************************************************)
(* Execute sessions on the menus of contracts with one operation more than *)
(* OpLists has: the menu of N = MaxOps + 1 operations has N + 3 items.     *)
(***************************************************************************)
LargeOpLists == {SubSeq(Catalogue, 1, n) : n \in MaxOps..(MaxOps + 1)}

LargeMenuInit ==
  /\ ops \in LargeOpLists
  /\ functionName \in TargetNames
  /\ args \in ArgLists
  /\ SessionStart
  /\ AnalyzerIdle /\ CompileIdle /\ OthersIdle

LargeMenuSpec == LargeMenuInit /\ [][Next]_vars

(***************************************************************************)
(* runCLIWithAutoExit: the session deploy() runs.  It has no request, no   *)
(* latch and one timer, and its promise settles for deploy, not for        *)
(* executeFunction.                                                        *)
(***************************************************************************)
AutoExitInit ==
  /\ ops \in OpLists
  /\ functionName = <<>>
  /\ args = <<>>
  /\ SessionStart
  /\ AnalyzerIdle /\ CompileIdle /\ OthersIdle

\* resolve(value) of the promise of runCLIWithAutoExit
AutoExitResolve(value, by) ==
  /\ IF promise = "pending"
     THEN /\ promise' = "fulfilled"
          /\ cliResult' = value
          /\ settledBy' = by
     ELSE UNCHANGED <<promise, cliResult, settledBy>>
  /\ outcome' = outcome

\* cliProcess.stdout.on('data', ...): every chunk with the prompt writes
\* the exit option
AutoExitStdoutData(text) ==
  /\ proc # "spawnFailed"
  /\ ~closed
  /\ Len(chunks) < MaxChunks
  /\ chunks' = Append(chunks, text)
  /\ output' = AppendChunk(output, text)
  /\ stdinWrites' = IF SeesMenuPrompt(text)
                    THEN Append(stdinWrites, Write("exit", ExitOptionLiteral))
                    ELSE stdinWrites
  /\ UNCHANGED <<analyzerVars, compileVars, handlerVars, inflight, interpVars,
                 request, errors, menuShown, timers, proc, exitCode, closed,
                 promise, cliResult, outcome, settledBy, reactions>>

\* cliProcess.on('close', ...)
AutoExitOnClose ==
  /\ proc \in {"exited", "killed"}
  /\ ~closed
  /\ closed' = TRUE
  /\ AutoExitResolve([output |-> output, errors |-> errors,
                      exitCode |-> exitCode], "close")
  /\ UNCHANGED <<analyzerVars, compileVars, handlerVars, inflight, interpVars,
                 request, chunks, output, errors, menuShown, stdinWrites,
                 timers, proc, exitCode, reactions>>

\* cliProcess.on('error', ...)
AutoExitOnError ==
  /\ proc = "running"
  /\ chunks = <<>> /\ errors = <<>>
  /\ promise = "pending"
  /\ proc' = "spawnFailed"
  /\ promise' = "rejected"
  /\ settledBy' = "error"
  /\ UNCHANGED <<analyzerVars, compileVars, handlerVars, inflight, interpVars,
                 request, chunks, output, errors, menuShown, stdinWrites,
                 timers, exitCode, closed, cliResult, outcome, reactions>>

\* the callback of setTimeout(..., 120000)
AutoExitTimeoutFire ==
  /\ timers # <<>>
  /\ Head(timers) = "timeout"
  /\ timers' = Tail(timers)
  /\ Kill
  /\ AutoExitResolve(TimeoutResult, "timeout")
  /\ UNCHANGED <<analyzerVars, compileVars, handlerVars, inflight, interpVars,
                 request, chunks, output, errors, menuShown, stdinWrites,
                 closed, reactions>>

AutoExitNext ==
  \/ \E text \in StdoutTexts : AutoExitStdoutData(text)
  \/ \E text \in StderrTexts : StderrData(text)
  \/ \E code \in ExitCodes : ProcExit(code)
  \/ AutoExitOnClose
  \/ AutoExitOnError
  \/ AutoExitTimeoutFire

AutoExitSpec == AutoExitInit /\ [][AutoExitNext]_vars

(***************************************************************************)
(* Execute sessions whose child prints the numbered lines and the prompt   *)
(* in chunks of their own, and the lines of a menu without its first       *)
(* operation before the menu proper.                                       *)
(***************************************************************************)
\* the header and the numbered lines of the menu, without the prompt
MenuLines(functions) ==
  LET text == MenuText(functions)
  IN SubSeq(text, 1, Len(text) - Len(MenuPrompt))

ScanStdoutTexts ==
  { MenuText(ops), MenuLines(ops), MenuLines(Tail(ops)), MenuPrompt }

ScanInit ==
  /\ ops = SubSeq(Catalogue, 1, MaxOps)
  /\ functionName \in {<<"increment">>, <<"nosuch">>}
  /\ args = [i \in 1..MaxArgs |-> ArgValue(i)]
  /\ SessionStart
  /\ AnalyzerIdle /\ CompileIdle /\ OthersIdle

ScanNext ==
  \/ \E text \in ScanStdoutTexts : StdoutData(text)
  \/ \E text \in StderrTexts : StderrData(text)
  \/ ArgTimerFire
  \/ ExitTimerFire
  \/ TimeoutFire
  \/ \E code \in ExitCodes : ProcExit(code)
  \/ OnClose
  \/ OnError

ScanSpec == ScanInit /\ [][ScanNext]_vars

(***************************************************************************)
(* Auxiliary definitions of the properties                                 *)
(***************************************************************************)
Range(seq) == {seq[i] : i \in 1..Len(seq)}

\* the lines written to stdin, without the tags of the statements
WrittenLines == [i \in 1..Len(stdinWrites) |-> stdinWrites[i].line]

\* the stdout chunks in which the data handler saw the menu prompt
MarkerChunks == {i \in 1..Len(chunks) : SeesMenuPrompt(chunks[i])}

\* the writes of the menu reaction itself (lines 310 and 329)
SelectionWrites ==
  {i \in 1..Len(stdinWrites) : stdinWrites[i].kind \in {"select", "exitNotFound"}}

\* the target is one of the operations of the menu
TargetPresent == \E i \in 1..Len(ops) : ops[i].name = functionName

\* the index lookup found the target and wrote its number
Selected == stdinWrites # <<>> /\ stdinWrites[1].kind = "select"

\* no delayed write is pending any more
WritesComplete == "arg" \notin Range(timers) /\ "exit" \notin Range(timers)

\* 'Exception:' has been captured
ExceptionSeen == ExceptionText \in Range(output)

\* the text of console.log(`Function ... not found in menu, exiting...`)
NotFoundWarning == "Function not found in menu"

(***************************************************************************)
(* C1.  However many stdout chunks contain the menu prompt, the            *)
(* act-on-menu reaction runs exactly once: it has run iff a chunk with the *)
(* prompt has arrived, and at most one menu selection is ever written.     *)
(***************************************************************************)
C1_MenuLatchOnce ==
  /\ reactions = (IF MarkerChunks = {} THEN 0 ELSE 1)
  /\ Cardinality(SelectionWrites) <= 1
  /\ menuShown <=> (MarkerChunks # {})

\* two chunks carried the prompt, the target was selected once
C1_Witness ==
  /\ Cardinality(MarkerChunks) >= 2
  /\ reactions = 1
  /\ Selected

(***************************************************************************)
(* C2.  The stdin writes are ordered: what has been written is always a    *)
(* prefix of  selection, the argument values in the order given, exit      *)
(* (or is the lone exit of the not-found branch).                          *)
(***************************************************************************)
C2_WritesOrdered ==
  \/ stdinWrites = <<>>
  \/ stdinWrites = <<Write("exitNotFound", ExitOptionLiteral)>>
  \/ /\ Selected
     /\ LET full == <<stdinWrites[1]>>
                    \o [i \in 1..Len(args) |-> Write("arg", args[i])]
                    \o <<Write("exit", ExitOptionLiteral)>>
        IN \E n \in 1..Len(full) : stdinWrites = SubSeq(full, 1, n)

\* a session with two arguments that has written everything
C2_Witness ==
  /\ Len(args) = 2
  /\ Len(stdinWrites) = 4
  /\ stdinWrites[4].kind = "exit"

(***************************************************************************)
(* C3.  When the target has been selected and the delayed writes are done, *)
(* the lines written are: the target's index, the arguments in order, the  *)
(* index of the Exit item of that menu (N+3).                              *)
(***************************************************************************)
C3_WriteSequence ==
  (Selected /\ WritesComplete) =>
     WrittenLines = <<stdinWrites[1].line>> \o args \o <<ExitKey(ops)>>

(***************************************************************************)
(* C4.  When the target is not an operation of the menu, the line the      *)
(* session writes selects the Exit item of that menu.                      *)
(***************************************************************************)
C4_NotFoundSelectsExit ==
  (~TargetPresent /\ reactions > 0) =>
     /\ stdinWrites # <<>>
     /\ stdinWrites[Len(stdinWrites)].line = ExitKey(ops)

(***************************************************************************)
(* C5.  When the target was not found in the menu, the outcome returned    *)
(* by executeFunction carries an operation-not-found warning in errors.    *)
(***************************************************************************)
C5_NotFoundReported ==
  (/\ outcome.returned
   /\ settledBy = "close"
   /\ \E i \in 1..Len(stdinWrites) : stdinWrites[i].kind = "exitNotFound")
  => NotFoundWarning \in Range(outcome.errors)

(***************************************************************************)
(* C6 as stated.  A session in which the menu prompt has not been observed *)
(* writes nothing to stdin and its outcome is a timeout failure.           *)
(***************************************************************************)
C6_Original ==
  (outcome.returned /\ ~menuShown) =>
     /\ stdinWrites = <<>>
     /\ ~outcome.success
     /\ TimedOutError \in Range(outcome.errors)

(***************************************************************************)
(* C6 as amended.  While the menu prompt has not been observed nothing is  *)
(* written to stdin; and when the timeout expires in such a session before *)
(* the process has closed or failed to start, the process is no longer     *)
(* running after the handler and the outcome is a timeout failure (success *)
(* false, the timed-out error after the captured stderr chunks) carrying   *)
(* exactly the output captured up to that point.                           *)
(***************************************************************************)
C6_TimeoutWithoutMenu ==
  [][ /\ (~menuShown' => stdinWrites' = <<>>)
      /\ (settledBy = "none" /\ settledBy' = "timeout" /\ ~menuShown) =>
           /\ proc' # "running"
           /\ outcome'.returned
           /\ ~outcome'.success
           /\ outcome'.errors = Append(errors, TimedOutError)
           /\ outcome'.output.body = output ]_vars

\* the timeout ended a session that printed something but never the menu
C6_Witness ==
  /\ settledBy = "timeout"
  /\ ~menuShown
  /\ output # <<>>
  /\ outcome.output.body = output
  /\ proc = "killed"

(***************************************************************************)
(* C7.  Every call of executeFunction eventually returns an outcome.       *)
(***************************************************************************)
C7_EventuallyReturns == <>(outcome.returned)

\* the child printed nothing and never ended: the timeout returned
C7_Witness ==
  /\ outcome.returned
  /\ settledBy = "timeout"
  /\ chunks = <<>>
  /\ ~closed

(***************************************************************************)
(* C8.  Close and timeout compose as first-wins: the outcome, once         *)
(* returned, never changes; if 'close' settles the session the outcome     *)
(* carries the exit code and no timed-out error; if the timeout settles it *)
(* the outcome is the timeout failure.                                     *)
(***************************************************************************)
C8_FirstWins ==
  [][ /\ outcome.returned => (outcome' = outcome /\ cliResult' = cliResult)
      /\ (settledBy = "none" /\ closed' /\ ~closed) =>
           /\ outcome'.returned
           /\ cliResult'.exitCode = exitCode
           /\ outcome'.success = (exitCode = 0)
           /\ TimedOutError \notin Range(outcome'.errors)
      /\ (settledBy = "none" /\ timers # <<>> /\ Head(timers) = "timeout"
            /\ timers' = Tail(timers)) =>
           /\ outcome'.returned
           /\ cliResult'.exitCode = TimeoutExitCode
           /\ ~outcome'.success
           /\ TimedOutError \in Range(outcome'.errors) ]_vars

\* the process closed first and the timeout fired afterwards
C8_Witness ==
  /\ settledBy = "close"
  /\ closed
  /\ "timeout" \notin Range(timers)
  /\ cliResult.exitCode = exitCode

C10_ExceptionStopsSession ==
  [][ /\ ExceptionSeen => stdinWrites' = stdinWrites
      /\ (ExceptionSeen' /\ closed' /\ settledBy' = "close") =>
           ~outcome'.success ]_vars

(***************************************************************************)
(* C11.  executeFunction and compile end in a returned outcome object      *)
(* whatever happened: a settled session promise, rejected ones included,   *)
(* has produced the outcome of executeFunction; after a spawn failure or   *)
(* a timeout that outcome has success false and at least one error string; *)
(* and when the compile command failed, compile returned success false     *)
(* with at least one error string, none of them empty.                     *)
(***************************************************************************)
C11_AlwaysOutcome ==
  /\ promise \in {"fulfilled", "rejected"} => outcome.returned
  /\ settledBy \in {"error", "timeout"} =>
       /\ outcome.returned
       /\ ~outcome.success
       /\ Len(outcome.errors) >= 1
  /\ compileResult.status \in {"none", "returned"}
  /\ (compileResult.status = "returned" /\ execOutcome.kind = "failed") =>
       /\ ~compileResult.success
       /\ Len(compileResult.errors) >= 1
       /\ \A i \in 1..Len(compileResult.errors) : compileResult.errors[i] # <<>>

\* the compile command failed without stderr and without 'Exception:' on
\* stdout: the only error string is the message of the error
C11_Witness ==
  /\ compileResult.status = "returned"
  /\ execOutcome.kind = "failed"
  /\ execOutcome.stderr = <<>>
  /\ compileResult.errors = <<execOutcome.message>>

(***************************************************************************)
(* C12.  For every number N >= 0 of analysed operations the menu has       *)
(* exactly N+3 items: one per operation in the order of the analysis, then *)
(* 'Display ledger state', 'Display private state' and 'Exit'.             *)
(***************************************************************************)
C12_MenuShape ==
  menuItems # <<>> =>
    LET n == Len(analysis.functions)
    IN /\ Len(menuItems) = n + 3
       /\ \A i \in 1..n :
            /\ menuItems[i].label.words =
                 [k \in 1..Len(analysis.functions[i].name) |->
                    Capitalize(analysis.functions[i].name[k])]
            /\ menuItems[i].label.params = Len(analysis.functions[i].parameters)
            /\ menuItems[i].readOnly = analysis.functions[i].readOnly
       /\ menuItems[n + 1].label.words = <<"Display", "ledger", "state">>
       /\ menuItems[n + 2].label.words = <<"Display", "private", "state">>
       /\ menuItems[n + 3].label.words = <<"Exit">>

\* the menu of a contract without operations: the three fixed items
C12_Witness ==
  /\ analysis.status = "returned"
  /\ analysis.functions = <<>>
  /\ Len(menuItems) = 3

(***************************************************************************)
(* C13.  The item at position i of the menu has the key i: the keys are    *)
(* 1..N+3, pairwise distinct, and generating the menu again from the same  *)
(* analysis gives the same items.                                          *)
(***************************************************************************)
C13_KeysArePositions ==
  menuItems # <<>> =>
    /\ \A i \in 1..Len(menuItems) : menuItems[i].key = ToString(i)
    /\ \A i, j \in 1..Len(menuItems) :
         menuItems[i].key = menuItems[j].key => i = j
    /\ generateMenuItems(analysis.functions) = menuItems

\* a menu of MaxOps operations: the Exit item has the key MaxOps + 3
C13_Witness ==
  /\ Len(analysis.functions) = MaxOps
  /\ Len(menuItems) = MaxOps + 3
  /\ menuItems[MaxOps + 3].key = ToString(MaxOps + 3)

(***************************************************************************)
(* C14.  Rendering and index resolution agree: for every operation of the  *)
(* analysed contract, the scan of the rendered menu for the operation's    *)
(* name yields the key of the operation's menu item.                       *)
(***************************************************************************)
C14_ResolutionAgrees ==
  menuItems # <<>> =>
    \A i \in 1..Len(analysis.functions) :
       FindFunctionNumber(generateMenuQuestion(menuItems),
                          analysis.functions[i].name) = menuItems[i].key

\* analyzeContract has run; it returned; it took the descriptor branch
Analysed == analysis.status # "none"
Returned == analysis.status = "returned"
FromDescriptor == descriptor.kind \in {"valid", "noCircuits"}

(***************************************************************************)
(* C15.  When the descriptor can be read and the source exists, the        *)
(* operations of the analysis are those of the descriptor, one per         *)
(* circuit and in its order, and the ledger state is the one parsed from   *)
(* the source.                                                             *)
(***************************************************************************)
C15_DescriptorFirst ==
  (Analysed /\ FromDescriptor /\ source.kind = "present") =>
     /\ Returned
     /\ Len(analysis.functions) = Len(descriptor.circuits)
     /\ \A i \in 1..Len(descriptor.circuits) :
          analysis.functions[i].name = descriptor.circuits[i].name
     /\ analysis.functions = parseFromContractInfo(descriptor)
     /\ Len(analysis.ledgerState) = Len(source.ledger)
     /\ analysis.ledgerState = parseLedgerState(source)

\* one circuit in the descriptor, two other declarations and a ledger in
\* the source
C15_Witness ==
  /\ Returned
  /\ descriptor.kind = "valid"
  /\ Len(descriptor.circuits) = 1
  /\ source.kind = "present"
  /\ Len(source.circuits) = 2
  /\ source.circuits[1].name # descriptor.circuits[1].name
  /\ Len(analysis.functions) = 1
  /\ Len(analysis.ledgerState) = 2

(***************************************************************************)
(* C16.  As claimed: whenever the descriptor exists but cannot be read,    *)
(* analyzeContract returns the operations parsed from the source.          *)
(***************************************************************************)
C16_Original ==
  (Analysed /\ descriptor.kind = "unreadable") =>
     /\ Returned
     /\ analysis.functions = parseFunctions(source)

(***************************************************************************)
(* C16, amended.  When the descriptor exists but cannot be read and the    *)
(* source file exists, analyzeContract returns the operations parsed from  *)
(* the source, one per declaration; when the source file does not exist    *)
(* it throws 'Contract file not found'.  The descriptor's own failure      *)
(* never reaches the caller.                                               *)
(***************************************************************************)
C16_FallsBackToSource ==
  (Analysed /\ descriptor.kind = "unreadable") =>
     IF source.kind = "present"
     THEN /\ Returned
          /\ Len(analysis.functions) = Len(source.circuits)
          /\ \A i \in 1..Len(source.circuits) :
               analysis.functions[i].name = source.circuits[i].name
          /\ analysis.functions = parseFunctions(source)
     ELSE /\ analysis.status = "thrown"
          /\ analysis.error = ContractFileNotFound.error

\* an unreadable descriptor next to a source with two declarations
C16_Witness ==
  /\ Returned
  /\ descriptor.kind = "unreadable"
  /\ source.kind = "present"
  /\ Len(analysis.functions) = 2

(***************************************************************************)
(* C17.  As claimed: analyzeContract returns an analysis for every         *)
(* combination of descriptor and source.                                   *)
(***************************************************************************)
C17_Original == Analysed => Returned

(***************************************************************************)
(* C17, amended.  analyzeContract throws exactly when the source file is   *)
(* absent and the descriptor is absent or unreadable; in every other       *)
(* combination it returns an analysis, whose operation list is empty when  *)
(* the descriptor has no circuits array or, on the textual path, when      *)
(* nothing in the source matches.                                          *)
(***************************************************************************)
C17_ThrowsOnlyWithoutSource ==
  Analysed =>
    /\ analysis.status = "thrown" <=>
         (source.kind = "absent" /\ ~FromDescriptor)
    /\ (Returned /\ descriptor.kind = "noCircuits") => analysis.functions = <<>>
    /\ (Returned /\ ~FromDescriptor /\ source.circuits = <<>>) =>
         analysis.functions = <<>>

\* no descriptor and a source in which no declaration matches
C17_Witness ==
  /\ Returned
  /\ descriptor.kind = "absent"
  /\ source.kind = "present"
  /\ source.circuits = <<>>
  /\ analysis.functions = <<>>

\* the result type is the empty tuple: a Tuple without component types
EmptyTupleType(typeObj) ==
  /\ typeObj.present
  /\ typeObj.tn = "Tuple"
  /\ (typeObj.hasTypes => typeObj.types = <<>>)

(***************************************************************************)
(* C18.  For every circuit of a descriptor: a circuit whose pure flag is   *)
(* true is read-only whatever its result type; any other circuit is        *)
(* read-only iff it has a result type and that type is not the empty       *)
(* tuple.                                                                  *)
(***************************************************************************)
C18_ReadOnlyPrecedence ==
  (Returned /\ descriptor.kind = "valid") =>
     \A i \in 1..Len(descriptor.circuits) :
        LET circuit == descriptor.circuits[i]
        IN analysis.functions[i].readOnly <=>
             IF circuit.pure THEN TRUE
             ELSE /\ circuit.resultType.present
                  /\ ~EmptyTupleType(circuit.resultType)

\* a pure circuit returning the empty tuple, classified read-only, followed
\* by a circuit that is not pure and is not read-only
C18_Witness ==
  /\ Returned
  /\ descriptor.kind = "valid"
  /\ Len(descriptor.circuits) = 2
  /\ descriptor.circuits[1].pure
  /\ EmptyTupleType(descriptor.circuits[1].resultType)
  /\ analysis.functions[1].readOnly
  /\ ~descriptor.circuits[2].pure
  /\ ~analysis.functions[2].readOnly

\* the text without its blanks
WithoutBlanks(text) == SelectSeq(text, LAMBDA token : token # " ")

\* the analysis came from the textual parsing of the source
FromSource == Returned /\ ~FromDescriptor

(***************************************************************************)
(* C19.  For every declaration found by the textual parsing, readOnly is   *)
(* true iff the declared return type is neither '[]' nor empty; vote_yes,  *)
(* declared with [], is not read-only and get_results, declared with       *)
(* [Uint<64>, Uint<64>], is.                                               *)
(***************************************************************************)
C19_TextualReadOnly ==
  FromSource =>
     \A i \in 1..Len(source.circuits) :
        LET declared == WithoutBlanks(source.circuits[i].returnType)
            func == analysis.functions[i]
        IN /\ func.readOnly <=> (declared # <<"[]">> /\ declared # <<>>)
           /\ func.name = <<"vote", "yes">> => ~func.readOnly
           /\ func.name = <<"get", "results">> => func.readOnly

\* the voting scenario: vote_yes then get_results
C19_Witness ==
  /\ FromSource
  /\ Len(analysis.functions) = 2
  /\ analysis.functions[1].name = <<"vote", "yes">>
  /\ ~analysis.functions[1].readOnly
  /\ analysis.functions[2].name = <<"get", "results">>
  /\ analysis.functions[2].readOnly

\* the label of this type object carries its bound (Uint) or length (Bytes)
LabelCarriesNumber(typeObj, label) ==
  /\ (typeObj.present /\ typeObj.tn = "Uint" /\ typeObj.maxval >= 0) =>
        \E k \in 1..Len(label) : label[k] = ToString(typeObj.maxval)
  /\ (typeObj.present /\ typeObj.tn = "Bytes" /\ typeObj.length >= 0) =>
        \E k \in 1..Len(label) : label[k] = ToString(typeObj.length)

(***************************************************************************)
(* C20.  The label of every Uint type of a descriptor with a bound b >= 0, *)
(* 0 included, contains the decimal rendering of b, and the label of every *)
(* Bytes type of length n contains n: for the result type and for every    *)
(* argument type of every circuit.                                         *)
(***************************************************************************)
C20_LabelCarriesBound ==
  (Returned /\ descriptor.kind = "valid") =>
     \A i \in 1..Len(descriptor.circuits) :
        LET circuit == descriptor.circuits[i]
            func == analysis.functions[i]
        IN /\ LabelCarriesNumber(circuit.resultType, func.returnType)
           /\ \A j \in 1..Len(circuit.arguments) :
                LabelCarriesNumber(circuit.arguments[j].type,
                                   func.parameters[j].type)

(***************************************************************************)
(* C21.  Type normalization is total.  Every type object of a descriptor   *)
(* gets a label, and the label of a tuple with components is 'Tuple<'      *)
(* followed by the labels of its components, joined, and '>'.  Every raw   *)
(* type of the source gets a label, which is the raw type itself unless    *)
(* the raw type is a key of the table.                                     *)
(***************************************************************************)
C21_NormalizationTotal ==
  Returned =>
    /\ descriptor.kind = "valid" =>
         \A i \in 1..Len(descriptor.circuits) :
            LET type == descriptor.circuits[i].resultType
                label == analysis.functions[i].returnType
            IN /\ label # <<>>
               /\ (type.present /\ type.tn = "Tuple" /\ type.types # <<>>) =>
                    label = <<"Tuple<">>
                            \o Join([k \in 1..Len(type.types) |->
                                 mapContractInfoTypeToUserFriendly(type.types[k])])
                            \o <<">">>
    /\ source.kind = "present" =>
         \A i \in 1..Len(source.ledger) :
            LET raw == Trim(source.ledger[i].type)
            IN raw \notin TypeMapKeys => analysis.ledgerState[i].type = raw

\* the type label is one collectParameter has a conversion for
Recognized(type) ==
  \/ Includes(type, <<"Uint<">>)
  \/ type \in {<<"number">>, <<"string">>, <<"bytes">>}

\* the parameter whose value could not be collected
FailedParam == handlerFunc.parameters[Len(handlerArgs) + 1]
FailedAnswer == answers[Len(handlerArgs) + 1]

ArgWrites == {i \in 1..Len(stdinWrites) : stdinWrites[i].kind = "arg"}

\* the parameter prompts captured so far
PromptsSeen == {i \in 1..Len(output) : output[i] = ParamPrompt}

(***************************************************************************)
(* C23.  Every argument value is written only after the prompt it answers  *)
(* has been observed: at no time have more argument values been written    *)
(* than parameter prompts have appeared in the captured output.            *)
(***************************************************************************)
C23_WritesFollowPrompts == Cardinality(ArgWrites) <= Cardinality(PromptsSeen)

(***************************************************************************)
(* C24.  Every chunk read from stderr is appended to the captured output   *)
(* like the chunks of stdout, and a stderr chunk with the menu prompt      *)
(* fires the menu latch.                                                   *)
(***************************************************************************)
C24_BothStreamsScanned ==
  \A i \in 1..Len(errors) :
     /\ Includes(output, errors[i])
     /\ SeesMenuPrompt(errors[i]) => menuShown

(***************************************************************************)
(* C30.  Whenever the captured output holds the complete menu prompt the   *)
(* menu latch has fired, however the output was divided into chunks.       *)
(***************************************************************************)
C30_SplitPromptDetected == Includes(output, MenuPrompt) => menuShown

(***************************************************************************)
(* C25.  Concurrent compile requests do not influence each other: what a   *)
(* request compiled is the code it submitted, and the operations of its    *)
(* result are those of that code.                                          *)
(***************************************************************************)
C25_RequestsIsolated ==
  \A r \in 1..Len(inflight) :
     /\ inflight[r].pc \in {"compiled", "responded"} =>
          inflight[r].compiled = inflight[r].code
     /\ inflight[r].pc = "responded" =>
          inflight[r].functions =
            parseFunctionsFromContract(inflight[r].code)

\* an error string of an execute outcome that is neither a stderr chunk nor
\* one of the strings of the timeout and spawn-error handlers
FromCapturedOutput(e) ==
  e \notin StderrTexts \cup {TimedOutError, SpawnErrorMessage}

(***************************************************************************)
(* C26.  When the fatal-exception marker was emitted, the outcome is a     *)
(* failure and its first error string is the exception text: for compile   *)
(* the stdout text holding 'Exception:', for an execute session an error   *)
(* taken from the captured output, whatever came on stderr.                *)
(***************************************************************************)
C26_ExceptionIsPrimaryError ==
  /\ (compileResult.status = "returned"
        /\ Includes(execOutcome.stdout, <<ExceptionText>>)) =>
       /\ ~compileResult.success
       /\ Len(compileResult.errors) >= 1
       /\ compileResult.errors[1] = execOutcome.stdout
  /\ (outcome.returned /\ ExceptionSeen) =>
       /\ ~outcome.success
       /\ Len(outcome.errors) >= 1
       /\ FromCapturedOutput(outcome.errors[1])

(***************************************************************************)
(* C27.  A compile whose command was killed at the time bound returns a    *)
(* failure that keeps the captured output and differs from what compile    *)
(* returns when the command fails by itself with the same output.          *)
(***************************************************************************)
C27_CompileTimeoutMarked ==
  (compileResult.status = "returned" /\ execOutcome.killed) =>
     /\ ~compileResult.success
     /\ compileResult.output = execOutcome.stdout
     /\ compileResult # CompileCatch([execOutcome EXCEPT !.killed = FALSE])

(***************************************************************************)
(* The line the interpreter runs next or failed at, and its place in the   *)
(* submitted text.                                                          *)
(***************************************************************************)
AtLine ==
  /\ interp.status \in {"running", "thrown"}
  /\ interp.i < Len(SplitTrimFilter(program))

CurrentLine == SplitTrimFilter(program)[interp.i + 1]

\* the 1-based place in code of its k-th line that is not blank
PositionInSource(code, k) ==
  CHOOSE p \in 1..Len(code) :
    /\ code[p].kind # "blank"
    /\ Cardinality({q \in 1..p : code[q].kind # "blank"}) = k

UndeclaredAssignment ==
  /\ AtLine
  /\ CurrentLine.kind = "assign"
  /\ ~interp.variables[CurrentLine.name].bound

(***************************************************************************)
(* C28.  A line 'x = expr' whose x was never declared with 'let' fails     *)
(* with an error and the variable map after it is the map before it.       *)
(***************************************************************************)
C28_UndeclaredAssignmentFails ==
  [][(interp.status = "running" /\ UndeclaredAssignment) =>
       /\ interp'.status = "thrown"
       /\ interp'.errorMessage # ""
       /\ interp'.variables = interp.variables]_vars

C28_Witness ==
  /\ interp.status = "thrown"
  /\ UndeclaredAssignment
  /\ interp.errorMessage = "Variable not declared"
  /\ \E v \in VarNames : interp.variables[v].bound

(***************************************************************************)
(* C29.  The line number of an error is the 1-based place of the failing   *)
(* line in the submitted text, blank lines before it counted.              *)
(***************************************************************************)
C29_ErrorLineIsSourcePosition ==
  interp.status = "thrown" =>
    interp.errorLine = PositionInSource(program, interp.i + 1)

(***************************************************************************)
(* C31.  Once executeFunction has returned the outcome of a session,       *)
(* nothing is written to the child's stdin any more and no pending timer   *)
(* of the session runs.                                                    *)
(***************************************************************************)
C31_QuietAfterOutcome ==
  [][outcome.returned =>
       /\ stdinWrites' = stdinWrites
       /\ timers' = timers]_vars

(***************************************************************************)
(* The menu item a written line selects, 0 when the menu has no item with  *)
(* that key.                                                               *)
(***************************************************************************)
ItemSelectedBy(line) ==
  LET items == generateMenuItems(ops)
      hits == {i \in 1..Len(items) : items[i].key = line}
  IN IF hits = {} THEN 0 ELSE CHOOSE i \in hits : TRUE

\* the menu item of the requested operation, 0 when the menu has none
TargetItem ==
  LET hits == {i \in 1..Len(ops) : ops[i].name = functionName}
  IN IF hits = {} THEN 0 ELSE CHOOSE i \in hits : TRUE

\* the writes meant as menu selections (lines 310, 325 and 329)
MenuWrites ==
  {i \in 1..Len(stdinWrites) :
     stdinWrites[i].kind \in {"select", "exit", "exitNotFound"}}

(***************************************************************************)
(* C32.  Whatever the number of operations of the menu, a line the session *)
(* writes as a menu selection selects the requested operation or Exit,     *)
(* never another operation and never a state-display item.                 *)
(***************************************************************************)
C32_OnlyTargetOrExit ==
  \A i \in MenuWrites :
    ItemSelectedBy(stdinWrites[i].line) \in {0, TargetItem, Len(ops) + 3}

(***************************************************************************)
(* C33.  When the target has been selected and the delayed writes are      *)
(* done, the lines written between the selection and the exit selection    *)
(* are as many as the selected operation has declared parameters.          *)
(***************************************************************************)
C33_OneLinePerParameter ==
  (Selected /\ WritesComplete /\ TargetItem # 0) =>
     Cardinality(ArgWrites) = Len(ops[TargetItem].parameters)

(***************************************************************************)
(* Unsigned-integer parameters: Uint<16> holds 0..65535.  Of the texts of  *)
(* InputPool the decimal integers without sign are "7" and "70000".        *)
(***************************************************************************)
UintParam(param) == param.type[1] = "Uint<"

UintMax(param) ==
  CASE param.type[2] = "8" -> 255
    [] param.type[2] = "16" -> 65535

DecimalInteger(input) == input \in {"7", "70000"}

DecimalValue(input) ==
  CASE input = "7" -> 7
    [] input = "70000" -> 70000

(***************************************************************************)
(* C34.  A value collected for a parameter of type Uint<n> comes from an   *)
(* input that is a decimal integer without sign and within the bound of    *)
(* the type, and is that integer; when the input is anything else the      *)
(* handler fails at that parameter.                                        *)
(***************************************************************************)
C34_UintValidated ==
  \A k \in 1..Len(handlerArgs) :
    UintParam(handlerFunc.parameters[k]) =>
      /\ DecimalInteger(answers[k])
      /\ DecimalValue(answers[k]) <= UintMax(handlerFunc.parameters[k])
      /\ handlerArgs[k] = BigIntOf(DecimalValue(answers[k]))

(***************************************************************************)
(* The calls of the handler's own operation on the contract interface.     *)
(***************************************************************************)
Submissions ==
  {i \in 1..Len(handlerRun.calls) : handlerRun.calls[i].circuit = handlerFunc.name}

(***************************************************************************)
(* C35.  A handler calls its operation on the contract interface at most   *)
(* once, whichever way the first execution path ends.                      *)
(***************************************************************************)
C35_SubmittedAtMostOnce == Cardinality(Submissions) <= 1

(***************************************************************************)
(* C36.  A handler never ends by throwing into the menu loop: when it has  *)
(* left its last step it has completed normally, and it has logged the     *)
(* error when a parameter was invalid, when both execution paths failed or *)
(* when the display function failed.                                       *)
(***************************************************************************)
C36_HandlerNeverThrows ==
  /\ handlerRun.end # "propagated"
  /\ handlerState \in {"failed", "executed", "executionFailed",
                       "displayed", "displayFailed"} =>
       handlerRun.end = "completed"
  /\ handlerState \in {"failed", "executionFailed", "displayFailed"} =>
       handlerRun.logged # <<>>

\* both execution paths failed and the handler returned after logging it
C36_Witness ==
  /\ handlerState = "executionFailed"
  /\ handlerRun.end = "completed"
  /\ handlerRun.logged = <<"Failed to execute">>
  /\ Len(handlerRun.calls) = 1

(***************************************************************************)
(* C37.  In a session of runCLIWithAutoExit the exit selection is written  *)
(* once when a chunk with the menu prompt has arrived, however many such   *)
(* chunks arrive, and not at all before.                                   *)
(***************************************************************************)
C37_AutoExitOnce ==
  Len(stdinWrites) = (IF MarkerChunks = {} THEN 0 ELSE 1)

(***************************************************************************)
(* The output captured when the latch fired: the chunks up to the first    *)
(* one with the menu prompt; and its lines that match the target.          *)
(***************************************************************************)
FiringChunk == CHOOSE i \in MarkerChunks : \A j \in MarkerChunks : i <= j

RECURSIVE Concat(_, _)
Concat(texts, n) ==
  IF n = 0 THEN <<>> ELSE Concat(texts, n - 1) \o texts[n]

CapturedAtFiring == Concat(chunks, FiringChunk)

TargetLines ==
  {i \in 1..Len(CapturedAtFiring) :
     /\ LineMatch(CapturedAtFiring[i])
     /\ NameMatches(CapturedAtFiring[i], functionName)}

(***************************************************************************)
(* C38.  When the latch has fired, the line written first is the number of *)
(* the first line, among all the output captured up to then, whose name    *)
(* matches the target, also when that line came in an earlier chunk than   *)
(* the prompt; the exit option is written only when no captured line       *)
(* matches.                                                                *)
(***************************************************************************)
C38_WholeOutputScanned ==
  MarkerChunks # {} =>
    /\ stdinWrites # <<>>
    /\ IF TargetLines = {}
       THEN stdinWrites[1] = Write("exitNotFound", ExitOptionLiteral)
       ELSE \E i \in TargetLines :
              /\ \A j \in TargetLines : i <= j
              /\ stdinWrites[1] = Write("select", CapturedAtFiring[i].num)

\* the numbered lines came in the first chunk and the prompt in the second
C38_Witness ==
  /\ Len(chunks) = 2
  /\ MarkerChunks = {2}
  /\ ~SeesMenuPrompt(chunks[1])
  /\ TargetLines # {}
  /\ \A i \in TargetLines : i <= Len(chunks[1])
  /\ Selected

(***************************************************************************)
(* C39.  The captured output is append-only: after every step it is the    *)
(* concatenation of the stdout chunks received so far in arrival order, it *)
(* extends its value before the step, and the output of the outcome is     *)
(* the captured output of the moment the outcome is returned.              *)
(***************************************************************************)
C39_BufferAppendOnly ==
  [][/\ output' = Concat(chunks', Len(chunks'))
     /\ Len(output') >= Len(output)
     /\ SubSeq(output', 1, Len(output)) = output
     /\ (~outcome.returned /\ outcome'.returned) =>
          outcome'.output.body = output']_vars

\* the outcome was returned at the timeout with one chunk captured, and a
\* second chunk has been captured since
C39_Witness ==
  /\ outcome.returned
  /\ settledBy = "timeout"
  /\ Len(chunks) = 2
  /\ outcome.output.body = chunks[1]
  /\ output = chunks[1] \o chunks[2]

====
